---------------------------- MODULE Spec2Model ----------------------------
(***************************************************************************)
(* Service-ticket API of the billing application: the request validators,  *)
(* the error responder, the auth gate and the CRUD handlers of             *)
(* app/api/services, run as concurrent requests against one data store and *)
(* one object-storage bucket.                                              *)
(*                                                                         *)
(* A JavaScript string is a sequence of one-character strings, so that     *)
(* trim, slice, replace and the regular expressions of the validators are  *)
(* computed character by character.                                        *)
(***************************************************************************)
EXTENDS Integers, Sequences, FiniteSets, TLC

(***************************************************************************)
(* Strings                                                                 *)
(***************************************************************************)
Digits == {"0", "1", "2", "3", "4", "5", "6", "7", "8", "9"}

WhiteSpace == {" ", "\t", "\n"}

DigitVal(c) ==
  CASE c = "0" -> 0 [] c = "1" -> 1 [] c = "2" -> 2 [] c = "3" -> 3
    [] c = "4" -> 4 [] c = "5" -> 5 [] c = "6" -> 6 [] c = "7" -> 7
    [] c = "8" -> 8 [] c = "9" -> 9 [] OTHER -> 0

\* String.prototype.toLowerCase / the case folding of ILIKE, on the letters
\* the model's codes use
Lower(c) ==
  CASE c = "A" -> "a" [] c = "B" -> "b" [] c = "T" -> "t" [] c = "R" -> "r"
    [] c = "U" -> "u" [] c = "E" -> "e" [] OTHER -> c

RECURSIVE TrimStart(_)
TrimStart(s) ==
  IF s = <<>> THEN <<>>
  ELSE IF Head(s) \in WhiteSpace THEN TrimStart(Tail(s)) ELSE s

RECURSIVE TrimEnd(_)
TrimEnd(s) ==
  IF s = <<>> THEN <<>>
  ELSE IF s[Len(s)] \in WhiteSpace THEN TrimEnd(SubSeq(s, 1, Len(s) - 1)) ELSE s

\* String.prototype.trim
Trim(s) == TrimEnd(TrimStart(s))

\* String.prototype.slice(0, n)
Slice0(s, n) == IF Len(s) <= n THEN s ELSE SubSeq(s, 1, n)

\* s.replace(/[<>]/g, "")
StripAngle(s) == SelectSeq(s, LAMBDA c : c \notin {"<", ">"})

\* s.replace(/\s+/g, "")
StripSpace(s) == SelectSeq(s, LAMBDA c : c \notin WhiteSpace)

RECURSIVE ReplaceFirst(_, _, _)
\* s.replace(a, b) with a string pattern: only the first occurrence
ReplaceFirst(s, a, b) ==
  IF s = <<>> THEN <<>>
  ELSE IF Head(s) = a THEN <<b>> \o Tail(s)
  ELSE <<Head(s)>> \o ReplaceFirst(Tail(s), a, b)

AllIn(s, set) == \A i \in 1..Len(s) : s[i] \in set

(***************************************************************************)
(* app/api/utils/validators.ts                                             *)
(***************************************************************************)
MAX_STRING_LENGTH == 500

MAX_DESCRIPTION_LENGTH == 2000

MAX_FILE_SIZE == 10 * 1024 * 1024

MAX_MONEY_VALUE == 1000000000

ALLOWED_FILE_TYPES ==
  { "application/pdf", "image/png", "image/jpeg", "image/jpg",
    "application/msword",
    "application/vnd.openxmlformats-officedocument.wordprocessingml.document" }

\* a validator's result { valid, error? }
\* (error is a message made of parts: a template literal keeps its pieces)
Valid == [valid |-> TRUE, error |-> <<>>]

Invalid(msg) == [valid |-> FALSE, error |-> msg]

\* new Date("YYYY-MM-DD") of the runtime (V8): the date-only ISO form is
\* accepted when 1 <= month <= 12 and 1 <= day <= 31 (a day past the end of
\* the month rolls over to the next month), otherwise it is an Invalid Date
DateParses(s) ==
  LET mm == DigitVal(s[6]) * 10 + DigitVal(s[7])
      dd == DigitVal(s[9]) * 10 + DigitVal(s[10])
  IN  mm >= 1 /\ mm <= 12 /\ dd >= 1 /\ dd <= 31

\* /^\d{4}-\d{2}-\d{2}$/
DateRegex(s) ==
  /\ Len(s) = 10
  /\ \A i \in {1, 2, 3, 4, 6, 7, 9, 10} : s[i] \in Digits
  /\ s[5] = "-" /\ s[8] = "-"

validateDate(dateStr) ==
  IF dateStr = <<>> THEN Invalid(<<"La fecha es requerida">>)
  ELSE IF ~DateRegex(dateStr) THEN Invalid(<<"Formato de fecha invalido. Debe ser YYYY-MM-DD">>)
  ELSE IF ~DateParses(dateStr) THEN Invalid(<<"Fecha invalida">>)
  ELSE Valid

\* /^([0-1][0-9]|2[0-3]):[0-5][0-9](:([0-5][0-9]))?$/
TimeRegex(s) ==
  /\ Len(s) \in {5, 8}
  /\ \/ s[1] \in {"0", "1"} /\ s[2] \in Digits
     \/ s[1] = "2" /\ s[2] \in {"0", "1", "2", "3"}
  /\ s[3] = ":"
  /\ s[4] \in {"0", "1", "2", "3", "4", "5"} /\ s[5] \in Digits
  /\ Len(s) = 8 =>
       /\ s[6] = ":"
       /\ s[7] \in {"0", "1", "2", "3", "4", "5"} /\ s[8] \in Digits

validateTime(timeStr) ==
  IF timeStr = <<>> THEN Invalid(<<"La hora es requerida">>)
  ELSE IF ~TimeRegex(timeStr) THEN Invalid(<<"Formato de hora invalido. Debe ser HH:mm o HH:mm:ss">>)
  ELSE Valid

\* /^[0-9+\-\s()]+$/
PhoneRegex(s) == s # <<>> /\ AllIn(s, Digits \cup {"+", "-", "(", ")"} \cup WhiteSpace)

validatePhone(phone) ==
  IF phone = <<>> THEN Invalid(<<"El telefono es requerido">>)
  ELSE IF Len(phone) > 50 THEN Invalid(<<"El telefono es demasiado largo">>)
  ELSE IF ~PhoneRegex(phone) THEN Invalid(<<"Formato de telefono invalido">>)
  ELSE Valid

validateString(value, fieldName, maxLength, required) ==
  IF required /\ (value = <<>> \/ Len(Trim(value)) = 0)
    THEN Invalid(<<fieldName, "es requerido">>)
  ELSE IF value # <<>> /\ Len(value) > maxLength
    THEN Invalid(<<fieldName, "es demasiado largo">>)
  ELSE Valid

validEstados ==
  { <<"P","e","n","d","i","e","n","t","e">>,
    <<"E","n"," ","f","a","b","r","i","c","a","c","i","o","n">>,
    <<"G","a","r","a","n","t","i","a">>,
    <<"E","n","t","r","e","g","a","d","o">> }

validateEstado(estado) ==
  IF estado \notin validEstados THEN Invalid(<<"Estado invalido">>) ELSE Valid

validPrioridades ==
  { <<"2","4"," ","h","o","r","a","s">>, <<"4","8"," ","h","o","r","a","s">>,
    <<"7","2"," ","h","o","r","a","s">>, <<"N","o","r","m","a","l">> }

validatePrioridad(prioridad) ==
  IF prioridad \notin validPrioridades THEN Invalid(<<"Prioridad invalida">>) ELSE Valid

validMateriales ==
  { <<"O","r","o"," ","d","e"," ","1","4","k">>, <<"O","r","o"," ","1","8","k">>,
    <<"P","l","a","t","a"," ","9","2","5">>, <<"P","l","a","t","a"," ","9","5","0">> }

validateMaterial(material) ==
  IF material \notin validMateriales THEN Invalid(<<"Material invalido">>) ELSE Valid

(***************************************************************************)
(* Number(s) on the strings a money field can hold.  A number is           *)
(* [nan, neg, ip, fp]: sign, integer part and hundredths.  The inputs use  *)
(* the characters 0-9 , . + - a and white space, with at most ten integer  *)
(* digits and two decimals, where StringToNumber is                        *)
(* [+-]? ( digits [. digits?] | . digits ), anything else NaN.             *)
(***************************************************************************)
NaN == [nan |-> TRUE, neg |-> FALSE, ip |-> 0, fp |-> 0]

Num(i, f) == [nan |-> FALSE, neg |-> FALSE, ip |-> i, fp |-> f]

RECURSIVE DigitsToNat(_)
DigitsToNat(s) ==
  IF s = <<>> THEN 0
  ELSE DigitsToNat(SubSeq(s, 1, Len(s) - 1)) * 10 + DigitVal(s[Len(s)])

\* the decimals as hundredths: "5" -> 50, "05" -> 5, "" -> 0
FracToHundredths(s) ==
  IF Len(s) = 0 THEN 0
  ELSE IF Len(s) = 1 THEN DigitVal(s[1]) * 10
  ELSE DigitVal(s[1]) * 10 + DigitVal(s[2])

\* position of the first "." of s, 0 when there is none
FirstDot(s) ==
  IF \E i \in 1..Len(s) : s[i] = "."
    THEN CHOOSE i \in 1..Len(s) : s[i] = "." /\ \A j \in 1..(i - 1) : s[j] # "."
    ELSE 0

UnsignedToNumber(s) ==
  LET d == FirstDot(s)
      ipart == IF d = 0 THEN s ELSE SubSeq(s, 1, d - 1)
      fpart == IF d = 0 THEN <<>> ELSE SubSeq(s, d + 1, Len(s))
  IN  IF /\ AllIn(ipart, Digits) /\ AllIn(fpart, Digits)
         /\ Len(ipart) + Len(fpart) > 0
        THEN Num(DigitsToNat(ipart), FracToHundredths(fpart))
        ELSE NaN

\* Number(s) for a non-empty s
StringToNumber(s) ==
  IF s = <<>> THEN Num(0, 0)
  ELSE IF Head(s) = "-"
    THEN LET n == UnsignedToNumber(Tail(s)) IN [n EXCEPT !.neg = ~n.nan]
  ELSE IF Head(s) = "+" THEN UnsignedToNumber(Tail(s))
  ELSE UnsignedToNumber(s)

\* Number.isFinite(n)
IsFinite(n) == ~n.nan

\* n < 0 (false for -0)
IsNegative(n) == ~n.nan /\ n.neg /\ (n.ip > 0 \/ n.fp > 0)

\* a > b
NumGt(a, b) ==
  /\ ~a.nan /\ ~b.nan
  /\ IF IsNegative(a) /\ IsNegative(b)
       THEN a.ip < b.ip \/ (a.ip = b.ip /\ a.fp < b.fp)
     ELSE IF IsNegative(a) THEN FALSE
     ELSE IF IsNegative(b) THEN TRUE
     ELSE a.ip > b.ip \/ (a.ip = b.ip /\ a.fp > b.fp)

\* raw.replace(/\s+/g, "").replace(",", ".")
NormalizeMoney(raw) == ReplaceFirst(StripSpace(Trim(raw)), ",", ".")

validateMoney_NoCeiling(value, fieldName, required) ==
  LET raw == Trim(value)
      num == StringToNumber(NormalizeMoney(raw))
  IN  IF raw = <<>>
        THEN IF required THEN Invalid(<<fieldName, "es requerido">>) ELSE Valid
      ELSE IF ~IsFinite(num) THEN Invalid(<<fieldName, "debe ser un numero valido">>)
      ELSE IF IsNegative(num) THEN Invalid(<<fieldName, "no puede ser negativo">>)
      ELSE Valid

validateMoney(value, fieldName, required) ==
  LET raw == Trim(value)
      num == StringToNumber(NormalizeMoney(raw))
  IN  IF raw = <<>>
        THEN IF required THEN Invalid(<<fieldName, "es requerido">>) ELSE Valid
      ELSE IF ~IsFinite(num) THEN Invalid(<<fieldName, "debe ser un numero valido">>)
      ELSE IF IsNegative(num) THEN Invalid(<<fieldName, "no puede ser negativo">>)
      ELSE IF NumGt(num, Num(MAX_MONEY_VALUE, 0)) THEN Invalid(<<fieldName, "es demasiado alto">>)
      ELSE Valid

validateFile_LimitExcluded(file) ==
  IF ~file.present THEN Valid
  ELSE IF file.size >= MAX_FILE_SIZE THEN Invalid(<<"Archivo demasiado grande. Maximo 10MB">>)
  ELSE IF file.type \notin ALLOWED_FILE_TYPES THEN Invalid(<<"Tipo de archivo no permitido">>)
  ELSE Valid

validateFile(file) ==
  IF ~file.present THEN Valid
  ELSE IF file.size > MAX_FILE_SIZE THEN Invalid(<<"Archivo demasiado grande. Maximo 10MB">>)
  ELSE IF file.type \notin ALLOWED_FILE_TYPES THEN Invalid(<<"Tipo de archivo no permitido">>)
  ELSE Valid

sanitizeString_TrimOnly(input) == Slice0(Trim(input), MAX_STRING_LENGTH)

sanitizeString(input) == Slice0(StripAngle(Trim(input)), MAX_STRING_LENGTH)

(***************************************************************************)
(* The data store's pattern match: code ILIKE pattern.  % (and its alias * *)
(* in the REST filter syntax) matches any run of characters, _ matches one *)
(* character, every other character matches itself up to letter case.      *)
(***************************************************************************)
RECURSIVE Like(_, _)
Like(p, s) ==
  IF p = <<>> THEN s = <<>>
  ELSE IF Head(p) \in {"%", "*"}
    THEN Like(Tail(p), s) \/ (s # <<>> /\ Like(p, Tail(s)))
  ELSE IF s = <<>> THEN FALSE
  ELSE IF Head(p) = "_" THEN Like(Tail(p), Tail(s))
  ELSE Lower(Head(p)) = Lower(Head(s)) /\ Like(Tail(p), Tail(s))

(***************************************************************************)
(* Requests: what a client may send                                        *)
(***************************************************************************)
\* the codes the data store assigns to new records
CodePool == { <<"A","1">>, <<"A","2">> }

\* the length limit of the code parameter
MAX_CODE_LENGTH == 100

LongCode == [i \in 1..(MAX_CODE_LENGTH + 1) |-> "A"]

\* the code parameter of read one, update and invoice, after decodeURIComponent
CodeParams ==
  CodePool \cup
  { <<"a","1">>, <<" ","A","2"," ">>, <<"B","9">>, <<"A","_">>, <<"%">>,
    <<>>, <<" ">>, LongCode }

NoFile == [present |-> FALSE, size |-> 0, type |-> ""]

File(size, type) == [present |-> TRUE, size |-> size, type |-> type]

Files ==
  { NoFile,
    File(1024, "application/pdf"),
    File(MAX_FILE_SIZE, "image/png"),
    File(MAX_FILE_SIZE + 1, "application/pdf"),
    File(1024, "application/x-msdownload") }

\* the scenario of the specification: a complete, valid submission
BaseForm ==
  [ malformed          |-> FALSE,
    cliente            |-> <<"A","n","a">>,
    telefono           |-> <<"3","0","0","-","1","2","3">>,
    maquina            |-> <<"L","a","s","e","r","1">>,
    fecha              |-> <<"2","0","2","4","-","0","1","-","1","5">>,
    hora               |-> <<"1","3",":","0","0",":","0","0">>,
    estado             |-> <<"P","e","n","d","i","e","n","t","e">>,
    descripcion        |-> <<"x">>,
    material           |-> <<"O","r","o"," ","d","e"," ","1","4","k">>,
    agente             |-> <<"L","u","i","s">>,
    almacen            |-> <<"A","1">>,
    prioridad          |-> <<"N","o","r","m","a","l">>,
    abono              |-> <<"0">>,
    costo_final        |-> <<"5">>,
    abono_pagado       |-> <<"f","a","l","s","e">>,
    costo_final_pagado |-> <<"f","a","l","s","e">>,
    cotizacionFile     |-> NoFile ]

\* submissions that differ from the valid one in a single text field
OneFieldForms ==
  { [BaseForm EXCEPT !.cliente = <<" ">>],
    [BaseForm EXCEPT !.telefono = <<"a","b","c">>],
    [BaseForm EXCEPT !.fecha = <<"2","0","2","4","-","1","3","-","4","5">>],
    [BaseForm EXCEPT !.hora = <<"2","5",":","0","0">>],
    [BaseForm EXCEPT !.estado = <<"C","e","r","r","a","d","o">>],
    [BaseForm EXCEPT !.material = <<>>],
    [BaseForm EXCEPT !.prioridad = <<"U","r","g","e","n","t","e">>],
    [BaseForm EXCEPT !.malformed = TRUE] }

\* a second valid submission: text to sanitize, a time without seconds, a
\* flag in upper case, and a deposit equal to the cost
SecondForm ==
  [BaseForm EXCEPT !.cliente = <<" ","<","A","n","a",">">>,
                   !.estado = <<"E","n","t","r","e","g","a","d","o">>,
                   !.hora = <<"0","9",":","3","0">>,
                   !.abono_pagado = <<"T","R","U","E">>,
                   !.abono = <<"5">>, !.costo_final = <<"5">>]

\* submissions that differ from the valid one in the money fields
Money(a, c) == [BaseForm EXCEPT !.abono = a, !.costo_final = c]

Ceiling == <<"1","0","0","0","0","0","0","0","0","0">>

MoneyForms ==
  { Money(<<>>, <<"5">>),
    Money(<<" ","5",",","5">>, Ceiling),
    Money(<<"5",",","5">>, <<"5">>),
    Money(<<"-","1">>, <<"5">>),
    Money(<<"a">>, <<"5">>),
    Money(<<"5">>, <<>>),
    Money(<<"5">>, <<"1","0","0","0","0","0","0","0","0","1">>) }

FileForms ==
  { [BaseForm EXCEPT !.cotizacionFile = f] : f \in Files } \cup
  { [BaseForm EXCEPT !.cotizacionFile = File(1024, "application/pdf"),
                     !.abono = <<"5",",","5">>, !.costo_final = <<"5">>],
    [BaseForm EXCEPT !.cotizacionFile = File(1024, "application/pdf"),
                     !.prioridad = <<>>] }

\* submissions with several invalid fields at once
SeveralInvalidForms ==
  { [BaseForm EXCEPT !.cliente = <<" ">>, !.telefono = <<"a","b","c">>,
                     !.costo_final = <<>>],
    [BaseForm EXCEPT !.fecha = <<"1","5","/","0","1">>, !.hora = <<"2","5",":","0","0">>,
                     !.abono = <<"-","1">>],
    [BaseForm EXCEPT !.material = <<>>, !.prioridad = <<"U","r","g","e","n","t","e">>,
                     !.cotizacionFile = File(MAX_FILE_SIZE + 1, "application/pdf")],
    [BaseForm EXCEPT !.abono = <<"a">>, !.costo_final = <<>>],
    [BaseForm EXCEPT !.abono = <<"5",",","5">>, !.costo_final = <<"5">>,
                     !.cotizacionFile = File(1024, "application/x-msdownload")] }

Forms == OneFieldForms \cup {SecondForm} \cup MoneyForms \cup FileForms
         \cup SeveralInvalidForms

\* the JSON body of a bulk delete: codes is an array of entries, or anything
\* else (isArray false: missing, null, a string, an unparsable body)
StrEntry(v) == [isString |-> TRUE, value |-> v]

NonStrEntry == [isString |-> FALSE, value |-> <<>>]

MAX_DELETE_CODES == 100

DeleteBodies ==
  { [isArray |-> FALSE, codes |-> <<>>],
    [isArray |-> TRUE, codes |-> <<>>],
    [isArray |-> TRUE, codes |-> << StrEntry(<<"A","1">>) >>],
    [isArray |-> TRUE, codes |-> << StrEntry(<<"A","2">>), StrEntry(<<"B","9">>) >>],
    [isArray |-> TRUE, codes |-> << StrEntry(<<"A","1">>), StrEntry(<<"A","1">>), StrEntry(<<"A","2">>) >>],
    [isArray |-> TRUE, codes |-> << StrEntry(<<"A","1">>), NonStrEntry >>],
    [isArray |-> TRUE, codes |-> << StrEntry(<<"A","1">>), StrEntry(<<" ">>) >>],
    [isArray |-> TRUE, codes |-> << StrEntry(<<"A","1">>), StrEntry(<<>>) >>],
    [isArray |-> TRUE, codes |-> [i \in 1..MAX_DELETE_CODES |-> StrEntry(<<"A","1">>)]],
    [isArray |-> TRUE, codes |-> [i \in 1..(MAX_DELETE_CODES + 1) |-> StrEntry(<<"A","2">>)]] }

\* a query parameter: searchParams.get(name) is null when it is absent
Absent == [present |-> FALSE, value |-> <<>>]

Param(v) == [present |-> TRUE, value |-> v]

\* searchParams.get(name) ?? fallback
OrElse(param, fallback) == IF param.present THEN param.value ELSE fallback

\* the query string of list; a text parameter that is absent reads as the
\* empty string (searchParams.get(name) ?? "")
NoQuery ==
  [ q |-> <<>>, estado |-> <<>>, maquina |-> <<>>, prioridad |-> <<>>,
    agente |-> <<>>, almacen |-> <<>>, desde |-> <<>>, hasta |-> <<>>,
    limit |-> Absent, offset |-> Absent, order |-> Absent,
    abono_min |-> <<>>, abono_max |-> <<>>,
    costo_final_min |-> <<>>, costo_final_max |-> <<>>,
    abono_pagado |-> <<>>, costo_final_pagado |-> <<>> ]

ListQueries ==
  { NoQuery,
    [NoQuery EXCEPT !.estado = <<"P","e","n","d","i","e","n","t","e">>,
                    !.maquina = <<"L","a","s","e","r","1">>,
                    !.limit = Param(<<"2","0","0">>)],
    [NoQuery EXCEPT !.estado = <<"C","e","r","r","a","d","o">>],
    [NoQuery EXCEPT !.prioridad = <<"U","r","g","e","n","t","e">>],
    [NoQuery EXCEPT !.prioridad = <<"N","o","r","m","a","l">>,
                    !.desde = <<"2","0","2","4","-","0","1","-","1","5">>,
                    !.agente = <<"L","u","i","s">>],
    [NoQuery EXCEPT !.desde = <<"1","5","/","0","1">>],
    [NoQuery EXCEPT !.hasta = <<"2","0","2","4","-","1","3","-","4","5">>],
    [NoQuery EXCEPT !.hasta = <<"2","0","2","3","-","1","2","-","3","1">>],
    [NoQuery EXCEPT !.almacen = <<"B","2">>],
    [NoQuery EXCEPT !.q = <<"a","n">>, !.order = Param(<<"f","e","c","h","a",".","a","s","c">>),
                    !.limit = Param(<<"1">>)],
    [NoQuery EXCEPT !.order = Param(<<"c","o","d","e">>), !.offset = Param(<<"1">>)],
    [NoQuery EXCEPT !.abono_min = <<"5">>],
    [NoQuery EXCEPT !.costo_final_max = <<"5">>, !.abono_pagado = <<"t","r","u","e">>] }

\* the message of a failure raised by an external call (none, or some text)
ErrMsgs == { <<>>, <<"connection timeout">>, <<"ECONNRESET">> }

\* object keys of the bucket: crypto.randomUUID() never repeats, so an upload
\* takes a key not yet in the bucket; MaxUploads bounds their number
MaxUploads == 2

ObjectKeys == 1..MaxUploads

\* storage.from("cotizaciones").getPublicUrl(path).data.publicUrl
getPublicUrl(path) == <<"public/cotizaciones", path>>

NullUrl == <<>>

(***************************************************************************)
(* State                                                                   *)
(***************************************************************************)
VARIABLES
  env,        \* process.env: NODE_ENV and whether the service credentials are set
  services,   \* the "services" table: code -> record
  bucket,     \* the "cotizaciones" bucket: the object keys uploaded
  req,        \* the requests being served: slot -> the handler's position and locals
  probe,      \* a validator or parser applied to one input: function, input, result
  nav         \* a page request passing through the middleware

vars == <<env, services, bucket, req, probe, nav>>

Slots == {"r1", "r2"}

Null == [null |-> TRUE]

NoResp ==
  [status |-> 0, kind |-> "none", error |-> <<>>, details |-> <<>>,
   service |-> Null, rows |-> <<>>, deleted |-> 0]

\* a font read is "idle", "pending", "ok" or "failed"; message is the reason
\* Promise.all rejected with (the first failure)
NoFonts == [regular |-> "idle", bold |-> "idle", rejected |-> FALSE, message |-> <<>>]

\* the answer of the auth service (none yet)
NoAuth == [user |-> FALSE, error |-> FALSE, thrown |-> FALSE, message |-> <<"-">>]

\* a failure caught by a handler: where it came from ("env", "body", "store",
\* "rows", "storage", "auth", "fonts", "render"), its message and the default
\* message the handler answers with
NoCaught == [some |-> FALSE, origin |-> "none", message |-> <<>>, default |-> <<>>]

Caught(origin, err, defaultMessage) ==
  [some |-> TRUE, origin |-> origin, message |-> err.message, default |-> defaultMessage]

\* no function applied
NoProbe == [fn |-> "none"]

\* no page request in the middleware
NoNav ==
  [ pc |-> "idle", variant |-> "middleware.ts", configured |-> TRUE,
    pathname |-> <<"/">>,
    visitor |-> "anonymous",   \* whether the request carries a valid session
    ran |-> FALSE,             \* the matcher selected the path
    thrown |-> FALSE,          \* auth.getUser() threw
    result |-> "none",         \* "next", "redirect:/login", "redirect:/app", "error"
    page |-> "none",           \* what the page at "/" answered: a redirect
    hops |-> 0 ]               \* the redirects followed since the start path

IdleReq ==
  [ pc       |-> "idle",
    op       |-> "none",
    code     |-> <<>>,               \* the code parameter
    body     |-> [isArray |-> FALSE, codes |-> <<>>],
    form     |-> BaseForm,           \* the multipart submission
    query    |-> NoQuery,            \* the query string of list
    existing |-> Null,               \* the record the lookup resolved
    row      |-> Null,               \* the fields to write
    path     |-> 0,                  \* the object key of the upload
    auth     |-> NoAuth,             \* what the auth service answered
    caught   |-> NoCaught,           \* the failure the handler caught
    fonts    |-> NoFonts,            \* the two font reads of the invoice
    calls    |-> <<>>,               \* the external calls made so far
    resp     |-> NoResp ]

(***************************************************************************)
(* app/api/utils/errors.ts                                                 *)
(***************************************************************************)
createErrorResponse(message, status) ==
  [NoResp EXCEPT !.status = status, !.kind = "error", !.error = message]

\* the failure leaves the handler unconverted: the framework's own 500, no JSON
handleError_Rethrow(err, defaultMessage) ==
  [NoResp EXCEPT !.status = 500, !.kind = "unhandled"]

handleError_AlwaysDetail(err, defaultMessage) ==
  createErrorResponse(IF err.message # <<>> THEN err.message ELSE defaultMessage, 500)

handleError(err, defaultMessage) ==
  LET isDevelopment == env.NODE_ENV = "development"
      errorMessage  == IF isDevelopment
                         THEN (IF err.message # <<>> THEN err.message ELSE defaultMessage)
                         ELSE defaultMessage
  IN  createErrorResponse(errorMessage, 500)

Err(m) == [message |-> m]

(***************************************************************************)
(* Helpers on the request record                                           *)
(***************************************************************************)
\* return a response: the request is over
Respond(r, response) ==
  req' = [req EXCEPT ![r].pc = "done", ![r].resp = response]

RespondAfter(r, call, response) ==
  req' = [req EXCEPT ![r].pc = "done", ![r].resp = response,
                     ![r].calls = Append(@, call)]

\* a failure reaches handleError, at the call site or in the catch block
Fail(r, calls, origin, err, defaultMessage) ==
  req' = [req EXCEPT ![r].pc = "done", ![r].resp = handleError(err, defaultMessage),
                     ![r].caught = Caught(origin, err, defaultMessage),
                     ![r].calls = @ \o calls]

\* requiredEnv(name) throws when the variable is not set
requiredEnvThrows == ~env.SUPABASE_CONFIGURED

MissingEnv == Err(<<"Missing env: NEXT_PUBLIC_SUPABASE_URL">>)

Init ==
  /\ env \in [NODE_ENV : {"development", "production"},
              SUPABASE_CONFIGURED : BOOLEAN]
  /\ services = [c \in {} |-> Null]
  /\ bucket = {}
  /\ req = [r \in Slots |-> IdleReq]
  /\ probe = NoProbe
  /\ nav = NoNav

(***************************************************************************)
(* A request arrives at one of the six handlers                            *)
(***************************************************************************)
Arrive(r, op, code, body, form, query) ==
  /\ req[r].pc = "idle"
  /\ req' = [req EXCEPT ![r] = [IdleReq EXCEPT !.pc = "auth", !.op = op, !.code = code,
                                               !.body = body, !.form = form,
                                               !.query = query]]
  /\ UNCHANGED <<env, services, bucket, probe, nav>>

(***************************************************************************)
(* app/api/middleware/auth.ts                                              *)
(***************************************************************************)
\* the ways auth.getUser() can end: a user, no user, an error value (and no
\* user), or an exception
AuthOutcomes ==
  { [user |-> u, error |-> FALSE, thrown |-> FALSE, message |-> <<>>] : u \in BOOLEAN }
  \cup { [user |-> FALSE, error |-> TRUE, thrown |-> FALSE, message |-> m] :
           m \in ErrMsgs \ {<<>>} }
  \cup { [user |-> FALSE, error |-> FALSE, thrown |-> TRUE, message |-> m] : m \in ErrMsgs }

Unauthorized ==
  createErrorResponse(<<"No autorizado. Debes iniciar sesion.">>, 401)

AuthFailed(o) ==
  createErrorResponse(
    IF env.NODE_ENV = "development"
      THEN <<"Error de autenticacion: ", o.message>>
      ELSE <<"Error de autenticacion">>, 500)

\* the result of requireAuth for an outcome of the auth service: "ok" stands
\* for { user, supabase }
requireAuth_NoUserPasses(o) ==
  IF o.thrown THEN AuthFailed(o)
  ELSE IF o.error THEN Unauthorized
  ELSE [NoResp EXCEPT !.kind = "ok"]

requireAuth_ErrorIs500(o) ==
  IF o.thrown \/ o.error THEN AuthFailed(o)
  ELSE IF ~o.user THEN Unauthorized
  ELSE [NoResp EXCEPT !.kind = "ok"]

requireAuth(o) ==
  IF o.thrown THEN AuthFailed(o)
  ELSE IF ~o.user \/ o.error THEN Unauthorized
  ELSE [NoResp EXCEPT !.kind = "ok"]

\* the pc a handler continues at once the identity is resolved
AfterAuth(op) ==
  CASE op = "list"    -> "query"
    [] op = "create"  -> "form"
    [] op = "delete"  -> "body"
    [] op = "read"    -> "param"
    [] op = "update"  -> "param"
    [] op = "invoice" -> "param"

\* const auth = await requireAuth(); if (auth instanceof NextResponse) return auth;
Auth(r) ==
  /\ req[r].pc = "auth"
  /\ \E o \in AuthOutcomes :
       LET auth == requireAuth(o) IN
       IF auth.kind = "ok"
         THEN req' = [req EXCEPT ![r].pc = AfterAuth(req[r].op), ![r].auth = o,
                                 ![r].calls = Append(@, "auth.getUser")]
         ELSE req' = [req EXCEPT ![r].pc = "done", ![r].resp = auth, ![r].auth = o,
                                 ![r].caught = IF auth.status = 500
                                                 THEN Caught("auth", o, <<"Error de autenticacion">>)
                                                 ELSE NoCaught,
                                 ![r].calls = Append(@, "auth.getUser")]
  /\ UNCHANGED <<env, services, bucket, probe, nav>>

(***************************************************************************)
(* app/api/services/route.ts and [code]/route.ts: the form of create and   *)
(* update                                                                  *)
(***************************************************************************)
\* String(v).toLowerCase() === "true"
parseBool(v) == [i \in 1..Len(v) |-> Lower(v[i])] = <<"t","r","u","e">>

parseMoney_NoComma(v) ==
  LET normalized == StripSpace(Trim(v))
  IN  IF normalized = <<>> THEN Num(0, 0) ELSE StringToNumber(normalized)

parseMoney(v) ==
  LET normalized == NormalizeMoney(v)
  IN  IF normalized = <<>> THEN Num(0, 0) ELSE StringToNumber(normalized)

normalizeTimeHHMMSS(hhmm) ==
  LET t == Trim(hhmm)
  IN  IF t = <<>> THEN <<>>
      ELSE IF Len(t) = 5 THEN t \o <<":","0","0">>
      ELSE Slice0(t, 8)

\* step "extraer y sanitizar datos"
Fields(form) ==
  [ cliente            |-> sanitizeString(form.cliente),
    telefono           |-> sanitizeString(form.telefono),
    maquina            |-> sanitizeString(form.maquina),
    fecha              |-> Trim(form.fecha),
    hora               |-> Trim(form.hora),
    estado             |-> Trim(form.estado),
    descripcion        |-> sanitizeString(form.descripcion),
    material           |-> sanitizeString(form.material),
    agente             |-> sanitizeString(form.agente),
    almacen            |-> sanitizeString(form.almacen),
    prioridad          |-> Trim(form.prioridad),
    abonoRaw           |-> Trim(form.abono),
    costoFinalRaw      |-> Trim(form.costo_final),
    abono_pagado       |-> parseBool(Trim(form.abono_pagado)),
    costo_final_pagado |-> parseBool(Trim(form.costo_final_pagado)),
    abono              |-> parseMoney(Trim(form.abono)),
    costo_final        |-> parseMoney(Trim(form.costo_final)) ]

\* step "validar todos los campos": the list of validations, in order
Validations(f) ==
  << validateString(f.cliente, "Cliente", MAX_STRING_LENGTH, TRUE),
     validatePhone(f.telefono),
     validateString(f.maquina, "Maquina", MAX_STRING_LENGTH, TRUE),
     validateDate(f.fecha),
     validateTime(f.hora),
     validateEstado(f.estado),
     validateString(f.descripcion, "Descripcion", MAX_DESCRIPTION_LENGTH, TRUE),
     validateMaterial(f.material),
     validateString(f.agente, "Agente", MAX_STRING_LENGTH, TRUE),
     validateString(f.almacen, "Almacen", MAX_STRING_LENGTH, TRUE),
     validatePrioridad(f.prioridad),
     validateMoney(f.abonoRaw, "Abono", FALSE),
     validateMoney(f.costoFinalRaw, "Costo final", TRUE) >>

\* for (const validation of validations) if (!validation.valid) return ...
FirstInvalid_LastWins(vs) ==
  IF \E i \in 1..Len(vs) : ~vs[i].valid
    THEN vs[CHOOSE i \in 1..Len(vs) : ~vs[i].valid /\ \A j \in (i + 1)..Len(vs) : vs[j].valid]
    ELSE Valid

FirstInvalid(vs) ==
  IF \E i \in 1..Len(vs) : ~vs[i].valid
    THEN vs[CHOOSE i \in 1..Len(vs) : ~vs[i].valid /\ \A j \in 1..(i - 1) : vs[j].valid]
    ELSE Valid

\* abono > costo_final, both finite
DepositExceedsCost_Never(f) == FALSE

DepositExceedsCost(f) ==
  IsFinite(f.abono) /\ IsFinite(f.costo_final) /\ NumGt(f.abono, f.costo_final)

\* the checks of a submission before anything is written: the response that
\* rejects it, or NoResp when it passes
CheckForm_FileOnly(form) ==
  LET fv == validateFile(form.cotizacionFile)
  IN  IF form.cotizacionFile.present /\ ~fv.valid
        THEN createErrorResponse(fv.error, 400)
        ELSE NoResp

CheckForm(form) ==
  LET f == Fields(form)
      v == FirstInvalid(Validations(f))
      fv == validateFile(form.cotizacionFile)
  IN  IF ~v.valid THEN createErrorResponse(v.error, 400)
      ELSE IF DepositExceedsCost(f)
        THEN createErrorResponse(<<"El abono no puede ser mayor al costo final">>, 400)
      ELSE IF form.cotizacionFile.present /\ ~fv.valid
        THEN createErrorResponse(fv.error, 400)
      ELSE NoResp

\* the object passed to insert() / update()
Row(f, hora, cotizacion_url) ==
  [ cliente            |-> f.cliente,
    telefono           |-> f.telefono,
    maquina            |-> f.maquina,
    fecha              |-> f.fecha,
    hora               |-> hora,
    estado             |-> f.estado,
    descripcion        |-> f.descripcion,
    material           |-> f.material,
    agente             |-> f.agente,
    almacen            |-> f.almacen,
    prioridad          |-> f.prioridad,
    cotizacion_url     |-> cotizacion_url,
    abono              |-> f.abono,
    costo_final        |-> f.costo_final,
    abono_pagado       |-> f.abono_pagado,
    costo_final_pagado |-> f.costo_final_pagado ]

\* a row of the table: the written fields and the code the store assigned
Stored(code, row) == [code |-> code] @@ row

(***************************************************************************)
(* Outcomes of the external calls                                          *)
(***************************************************************************)
\* a call to the data store or to storage succeeds, or returns an error value
CallOutcomes == { [ok |-> TRUE, message |-> <<>>] } \cup
                { [ok |-> FALSE, message |-> m] : m \in ErrMsgs \ {<<>>} }

\* maybeSingle() / single() on a result that is not one row
NotSingleRow == Err(<<"JSON object requested, multiple (or no) rows returned">>)

\* the default message of the catch block of each handler
CatchMessage(op) ==
  IF op = "invoice" THEN <<"Error generando PDF">>
  ELSE <<"Error procesando la solicitud">>

(***************************************************************************)
(* [code]/route.ts: findServiceByCode, shared by read one and update, and  *)
(* its inlined copy in the invoice handler                                 *)
(***************************************************************************)
\* what a failed lookup query becomes: findServiceByCode throws and the
\* handler's catch answers; the invoice handler answers at the call site
LookupMessage(op) ==
  IF op = "invoice" THEN <<"Error obteniendo servicio">> ELSE CatchMessage(op)

NotFound == createErrorResponse(<<"Servicio no encontrado">>, 404)

\* the pc after the lookup resolved a record
AfterLookup(op) ==
  CASE op = "read" -> "done" [] op = "update" -> "form" [] op = "invoice" -> "fonts"

Resolved(r, call, data) ==
  IF req[r].op = "read"
    THEN RespondAfter(r, call, [NoResp EXCEPT !.status = 200, !.kind = "service",
                                              !.service = data])
    ELSE req' = [req EXCEPT ![r].pc = AfterLookup(req[r].op), ![r].existing = data,
                            ![r].calls = Append(@, call)]

\* the rows .eq("code", code) selects
ExactRows(code) == { c \in DOMAIN services : c = code }

\* the rows .ilike("code", code) selects
IlikeRows_CaseFoldOnly(code) ==
  { c \in DOMAIN services :
      Len(c) = Len(code) /\ \A i \in 1..Len(c) : Lower(c[i]) = Lower(code[i]) }

IlikeRows(code) == { c \in DOMAIN services : Like(code, c) }

\* the handler up to the exact-match query: credentials, the code parameter,
\* then select("*").eq("code", code).maybeSingle()
LookupExact(r) ==
  /\ req[r].pc = "param"
  /\ LET code == Trim(req[r].code) IN
     IF requiredEnvThrows THEN Fail(r, <<>>, "env", MissingEnv, CatchMessage(req[r].op))
     ELSE IF code = <<>> THEN Respond(r, createErrorResponse(<<"Falta el parametro code">>, 400))
     ELSE IF Len(code) > MAX_CODE_LENGTH
       THEN Respond(r, createErrorResponse(<<"Codigo de servicio invalido">>, 400))
     ELSE \E o \in CallOutcomes :
       IF ~o.ok
         THEN Fail(r, <<"db.select">>, "store", Err(o.message), LookupMessage(req[r].op))
       ELSE IF ExactRows(code) # {}
         THEN Resolved(r, "db.select", services[CHOOSE c \in ExactRows(code) : TRUE])
       ELSE req' = [req EXCEPT ![r].pc = "ilike", ![r].calls = Append(@, "db.select")]
  /\ UNCHANGED <<env, services, bucket, probe, nav>>

\* the fallback query: select("*").ilike("code", code).maybeSingle()
LookupIlike(r) ==
  /\ req[r].pc = "ilike"
  /\ LET code == Trim(req[r].code)
         rows == IlikeRows(code) IN
     \E o \in CallOutcomes :
       IF ~o.ok
         THEN Fail(r, <<"db.select">>, "store", Err(o.message), LookupMessage(req[r].op))
       ELSE IF Cardinality(rows) > 1
         THEN Fail(r, <<"db.select">>, "rows", NotSingleRow, LookupMessage(req[r].op))
       ELSE IF rows = {} THEN RespondAfter(r, "db.select", NotFound)
       ELSE Resolved(r, "db.select", services[CHOOSE c \in rows : TRUE])
  /\ UNCHANGED <<env, services, bucket, probe, nav>>

(***************************************************************************)
(* route.ts POST and [code]/route.ts PUT                                   *)
(***************************************************************************)
\* let cotizacion_url = existing.cotizacion_url ?? null (update), = null (create)
InitialUrl_AlwaysNull(op, existing) == NullUrl

InitialUrl(op, existing) ==
  IF op = "update" THEN existing.cotizacion_url ELSE NullUrl

\* req.formData(), then the checks of the submission; a submission that
\* passes continues with the upload when it carries a file, else the write
ReadForm(r) ==
  /\ req[r].pc = "form"
  /\ LET op == req[r].op
         form == req[r].form
         f == Fields(form)
         rejected == CheckForm(form)
         hora == IF op = "update" THEN normalizeTimeHHMMSS(f.hora) ELSE f.hora
         url == InitialUrl(op, req[r].existing)
     IN
     IF op = "create" /\ requiredEnvThrows
       THEN Fail(r, <<>>, "env", MissingEnv, CatchMessage(op))
     ELSE IF form.malformed
       THEN Fail(r, <<"body">>, "body", Err(<<"Failed to parse body as FormData.">>),
                 CatchMessage(op))
     ELSE IF rejected.kind = "error" THEN RespondAfter(r, "body", rejected)
     ELSE req' = [req EXCEPT ![r].pc = IF form.cotizacionFile.present THEN "upload" ELSE "write",
                             ![r].row = Row(f, hora, url),
                             ![r].calls = Append(@, "body")]
  /\ UNCHANGED <<env, services, bucket, probe, nav>>

\* an object key not in the bucket
FreshKey == CHOOSE k \in ObjectKeys \ bucket : \A j \in ObjectKeys \ bucket : k <= j

\* storage.from("cotizaciones").upload(path, bytes), then getPublicUrl(path)
Upload(r) ==
  /\ req[r].pc = "upload"
  /\ \E o \in CallOutcomes :
       IF o.ok
         THEN /\ ObjectKeys \ bucket # {}
              /\ bucket' = bucket \cup {FreshKey}
              /\ req' = [req EXCEPT ![r].pc = "write",
                                    ![r].path = FreshKey,
                                    ![r].row.cotizacion_url = getPublicUrl(FreshKey),
                                    ![r].calls = Append(@, "storage.upload")]
         ELSE /\ Fail(r, <<"storage.upload">>, "storage", Err(o.message),
                      <<"Error subiendo cotizacion">>)
              /\ UNCHANGED bucket
  /\ UNCHANGED <<env, services, probe, nav>>

\* from("services").insert(row).select("*").single(): the store assigns the code
Insert_Compensating(r) ==
  /\ req[r].pc = "write" /\ req[r].op = "create"
  /\ \E o \in CallOutcomes :
       IF o.ok
         THEN \E c \in CodePool \ DOMAIN services :
                LET created == Stored(c, req[r].row) IN
                /\ services' = [k \in DOMAIN services \cup {c} |->
                                  IF k = c THEN created ELSE services[k]]
                /\ RespondAfter(r, "db.insert",
                                [NoResp EXCEPT !.status = 201, !.kind = "service",
                                               !.service = created])
                /\ UNCHANGED bucket
         ELSE /\ Fail(r, <<"db.insert", "storage.remove">>, "store", Err(o.message),
                      <<"Error insertando servicio">>)
              /\ bucket' = bucket \ {req[r].path}
              /\ UNCHANGED services
  /\ UNCHANGED <<env, probe, nav>>

Insert(r) ==
  /\ req[r].pc = "write" /\ req[r].op = "create"
  /\ \E o \in CallOutcomes :
       IF o.ok
         THEN \E c \in CodePool \ DOMAIN services :
                LET created == Stored(c, req[r].row) IN
                /\ services' = [k \in DOMAIN services \cup {c} |->
                                  IF k = c THEN created ELSE services[k]]
                /\ RespondAfter(r, "db.insert",
                                [NoResp EXCEPT !.status = 201, !.kind = "service",
                                               !.service = created])
         ELSE /\ Fail(r, <<"db.insert">>, "store", Err(o.message),
                      <<"Error insertando servicio">>)
              /\ UNCHANGED services
  /\ UNCHANGED <<env, bucket, probe, nav>>

\* the rows update(row).eq("code", existing.code) writes
UpdateTargets_Upsert(code) == {code}

UpdateTargets(code) == { c \in DOMAIN services : c = code }

\* from("services").update(row).eq("code", existing.code).select("*").single()
Update(r) ==
  /\ req[r].pc = "write" /\ req[r].op = "update"
  /\ LET code == req[r].existing.code
         updated == Stored(code, req[r].row) IN
     \E o \in CallOutcomes :
       IF o.ok /\ UpdateTargets(code) # {}
         THEN /\ services' = [k \in DOMAIN services \cup UpdateTargets(code) |->
                                IF k \in UpdateTargets(code) THEN updated ELSE services[k]]
              /\ RespondAfter(r, "db.update",
                              [NoResp EXCEPT !.status = 200, !.kind = "service",
                                             !.service = updated])
         ELSE /\ Fail(r, <<"db.update">>, IF o.ok THEN "rows" ELSE "store",
                      IF o.ok THEN NotSingleRow ELSE Err(o.message),
                      <<"Error actualizando servicio">>)
              /\ UNCHANGED services
  /\ UNCHANGED <<env, bucket, probe, nav>>

(***************************************************************************)
(* route.ts DELETE                                                         *)
(***************************************************************************)
\* codes.filter((code) => typeof code === "string" && code.trim().length > 0)
validCodes(codes) == SelectSeq(codes, LAMBDA e : e.isString /\ Len(Trim(e.value)) > 0)

\* the limit on the number of codes of one call
TooManyCodes_OffByOne(codes) == Len(codes) > MAX_DELETE_CODES + 1

TooManyCodes(codes) == Len(codes) > MAX_DELETE_CODES

\* req.json() and the checks of the body
ReadBody(r) ==
  /\ req[r].pc = "body"
  /\ LET body == req[r].body
         codes == IF body.isArray THEN body.codes ELSE <<>> IN
     IF requiredEnvThrows THEN Fail(r, <<>>, "env", MissingEnv, CatchMessage("delete"))
     ELSE IF Len(codes) = 0
       THEN RespondAfter(r, "body", createErrorResponse(<<"No hay codigos para eliminar">>, 400))
     ELSE IF TooManyCodes(codes)
       THEN RespondAfter(r, "body",
              createErrorResponse(<<"No se pueden eliminar mas de 100 servicios a la vez">>, 400))
     ELSE IF Len(validCodes(codes)) # Len(codes)
       THEN RespondAfter(r, "body", createErrorResponse(<<"Algunos codigos no son validos">>, 400))
     ELSE req' = [req EXCEPT ![r].pc = "write", ![r].calls = Append(@, "body")]
  /\ UNCHANGED <<env, services, bucket, probe, nav>>

\* the count the response reports: validCodes.length
deleted_RowsRemoved(codes) ==
  Cardinality({ codes[i].value : i \in 1..Len(codes) } \cap DOMAIN services)

deleted(codes) == Len(codes)

\* from("services").delete().in("code", validCodes)
DeleteRows(r) ==
  /\ req[r].pc = "write" /\ req[r].op = "delete"
  /\ LET codes == validCodes(req[r].body.codes)
         named == { codes[i].value : i \in 1..Len(codes) } IN
     \E o \in CallOutcomes :
       IF o.ok
         THEN /\ services' = [k \in DOMAIN services \ named |-> services[k]]
              /\ RespondAfter(r, "db.delete",
                              [NoResp EXCEPT !.status = 200, !.kind = "deleted",
                                             !.deleted = deleted(codes)])
         ELSE /\ Fail(r, <<"db.delete">>, "store", Err(o.message),
                      <<"Error eliminando servicios">>)
              /\ UNCHANGED services
  /\ UNCHANGED <<env, bucket, probe, nav>>

(***************************************************************************)
(* route.ts GET (list)                                                     *)
(***************************************************************************)
\* Math.max(a, b) and Math.min(a, b) of two finite numbers
NumMax(a, b) == IF NumGt(a, b) THEN a ELSE b

NumMin(a, b) == IF NumGt(a, b) THEN b ELSE a

\* a finite number >= 0 in hundredths
Hundredths(n) == n.ip * 100 + n.fp

\* const limit = Number.isFinite(limitParam) ? Math.min(Math.max(limitParam, 1), 500) : 200
limit(param) ==
  LET limitParam == StringToNumber(OrElse(param, <<"2","0","0">>))
  IN  IF IsFinite(limitParam)
        THEN NumMin(NumMax(limitParam, Num(1, 0)), Num(500, 0))
        ELSE Num(200, 0)

\* const offset = Number.isFinite(offsetParam) ? Math.max(offsetParam, 0) : 0
offset(param) ==
  LET offsetParam == StringToNumber(OrElse(param, <<"0">>))
  IN  IF IsFinite(offsetParam) THEN NumMax(offsetParam, Num(0, 0)) ELSE Num(0, 0)

\* .range(offset, offset + limit - 1): the two bounds, in hundredths
range(limitParam, offsetParam) ==
  [ from |-> Hundredths(offset(offsetParam)),
    to   |-> Hundredths(offset(offsetParam)) + Hundredths(limit(limitParam)) - 100 ]

\* the row positions 0, 1, 2, ... inside a range
Positions(w) == { k \in 0..((w.to \div 100) + 1) : w.from <= k * 100 /\ k * 100 <= w.to }

DateKey(s) == DigitsToNat(SubSeq(s, 1, 4)) * 10000
              + DigitsToNat(SubSeq(s, 6, 7)) * 100 + DigitsToNat(SubSeq(s, 9, 10))

\* the checks of the query string, in the order the handler makes them
CheckQuery(q) ==
  LET estado == sanitizeString(q.estado)
      prioridad == sanitizeString(q.prioridad) IN
  IF q.desde # <<>> /\ ~validateDate(q.desde).valid
    THEN createErrorResponse(validateDate(q.desde).error, 400)
  ELSE IF q.hasta # <<>> /\ ~validateDate(q.hasta).valid
    THEN createErrorResponse(validateDate(q.hasta).error, 400)
  ELSE IF estado # <<>> /\ ~validateEstado(estado).valid
    THEN createErrorResponse(validateEstado(estado).error, 400)
  ELSE IF prioridad # <<>> /\ ~validatePrioridad(prioridad).valid
    THEN createErrorResponse(validatePrioridad(prioridad).error, 400)
  ELSE NoResp

\* one "field.ilike.%q%" term of the free-text search
Contains(field, q) == Like(<<"%">> \o q \o <<"%">>, field)

\* the rows the filters of the query select
ListRows(q) ==
  LET text == sanitizeString(q.q)
      estado == sanitizeString(q.estado)
      maquina == sanitizeString(q.maquina)
      prioridad == sanitizeString(q.prioridad)
      agente == sanitizeString(q.agente)
      almacen == sanitizeString(q.almacen) IN
  { c \in DOMAIN services :
      /\ estado # <<>> => services[c].estado = estado
      /\ maquina # <<>> => services[c].maquina = maquina
      /\ prioridad # <<>> => services[c].prioridad = prioridad
      /\ agente # <<>> => services[c].agente = agente
      /\ almacen # <<>> => services[c].almacen = almacen
      /\ q.desde # <<>> => DateKey(services[c].fecha) >= DateKey(q.desde)
      /\ q.hasta # <<>> => DateKey(services[c].fecha) <= DateKey(q.hasta)
      /\ text # <<>> =>
           \/ Contains(c, text)
           \/ \E f \in {"cliente", "telefono", "maquina", "descripcion", "material",
                         "agente", "almacen"} : Contains(services[c][f], text) }

\* position of the first "." of the order parameter; its two parts
orderField(q) ==
  LET orderParam == OrElse(q.order, <<"c","r","e","a","t","e","d","_","a","t",".","d","e","s","c">>)
      d == FirstDot(orderParam)
  IN  IF d = 0 THEN orderParam ELSE SubSeq(orderParam, 1, d - 1)

ascending(q) ==
  LET orderParam == OrElse(q.order, <<"c","r","e","a","t","e","d","_","a","t",".","d","e","s","c">>)
      d == FirstDot(orderParam)
      rest == IF d = 0 THEN <<>> ELSE SubSeq(orderParam, d + 1, Len(orderParam))
      e == FirstDot(rest)
  IN  d # 0 /\ (IF e = 0 THEN rest ELSE SubSeq(rest, 1, e - 1)) = <<"a","s","c">>

validOrderFields ==
  { <<"c","r","e","a","t","e","d","_","a","t">>, <<"f","e","c","h","a">>,
    <<"c","o","d","e">>, <<"c","l","i","e","n","t","e">> }

finalOrderField(q) ==
  IF orderField(q) \in validOrderFields THEN orderField(q)
  ELSE <<"c","r","e","a","t","e","d","_","a","t">>

\* the orders the store may return the selected rows in: by fecha when that is
\* the order field; created_at and the collation of the text columns are not
\* part of the state, so that any order of the rows is possible for them
Orderings(codes, q) ==
  { s \in [1..Cardinality(codes) -> codes] :
      /\ \A i, j \in 1..Cardinality(codes) : i # j => s[i] # s[j]
      /\ finalOrderField(q) = <<"f","e","c","h","a">> =>
           \A i, j \in 1..Cardinality(codes) :
             i < j => IF ascending(q)
                        THEN DateKey(services[s[i]].fecha) <= DateKey(services[s[j]].fecha)
                        ELSE DateKey(services[s[i]].fecha) >= DateKey(services[s[j]].fecha) }

RECURSIVE Window(_, _, _)
\* the rows of an ordering at the positions of the range, from position k on
Window(s, w, k) ==
  IF k >= Len(s) THEN <<>>
  ELSE (IF k \in Positions(w) THEN << services[s[k + 1]] >> ELSE <<>>)
       \o Window(s, w, k + 1)

ListQuery(r) ==
  /\ req[r].pc = "query"
  /\ LET q == req[r].query IN
     IF requiredEnvThrows THEN Fail(r, <<>>, "env", MissingEnv, CatchMessage("list"))
     ELSE IF CheckQuery(q).kind = "error" THEN Respond(r, CheckQuery(q))
     ELSE \E o \in CallOutcomes :
       IF o.ok
         THEN \E s \in Orderings(ListRows(q), q) :
                RespondAfter(r, "db.select",
                  [NoResp EXCEPT !.status = 200, !.kind = "services",
                                 !.rows = Window(s, range(q.limit, q.offset), 0)])
         ELSE Fail(r, <<"db.select">>, "store", Err(o.message),
                   <<"Error obteniendo servicios">>)
  /\ UNCHANGED <<env, services, bucket, probe, nav>>

(***************************************************************************)
(* [code]/invoice/route.ts GET                                             *)
(***************************************************************************)
\* the body of the 500 of the font loading
FontsFailed(message) ==
  [createErrorResponse(<<"Error cargando recursos del PDF">>, 500) EXCEPT
     !.details = IF env.NODE_ENV = "development"
                   THEN <<message, "Inter-Regular.otf", "Inter-Bold.otf">> ELSE <<>>]

\* Promise.all([readFile(regular), readFile(bold)]): both reads are issued
StartFonts(r) ==
  /\ req[r].pc = "fonts" /\ req[r].fonts.regular = "idle"
  /\ req' = [req EXCEPT ![r].fonts = [NoFonts EXCEPT !.regular = "pending", !.bold = "pending"],
                        ![r].calls = @ \o <<"fs.readFile", "fs.readFile">>]
  /\ UNCHANGED <<env, services, bucket, probe, nav>>

\* one of the two reads completes; the first failure rejects the Promise.all
FontRead(r, which) ==
  /\ req[r].pc = "fonts" /\ req[r].fonts[which] = "pending"
  /\ \/ req' = [req EXCEPT ![r].fonts[which] = "ok"]
     \/ \E m \in ErrMsgs \ {<<>>} :
          req' = [req EXCEPT ![r].fonts[which] = "failed",
                             ![r].fonts.rejected = TRUE,
                             ![r].fonts.message = IF req[r].fonts.rejected THEN @ ELSE m]
  /\ UNCHANGED <<env, services, bucket, probe, nav>>

\* the await of the Promise.all resumes the handler
FontsSettled_FirstReadOnly(r) ==
  /\ req[r].pc = "fonts"
  /\ \/ /\ req[r].fonts.regular = "failed"
        /\ req' = [req EXCEPT ![r].pc = "done",
                              ![r].resp = FontsFailed(req[r].fonts.message),
                              ![r].caught = Caught("fonts", Err(req[r].fonts.message),
                                                   <<"Error cargando recursos del PDF">>)]
     \/ /\ req[r].fonts.regular = "ok"
        /\ req' = [req EXCEPT ![r].pc = "render"]
  /\ UNCHANGED <<env, services, bucket, probe, nav>>

FontsSettled(r) ==
  /\ req[r].pc = "fonts"
  /\ \/ /\ req[r].fonts.rejected
        /\ req' = [req EXCEPT ![r].pc = "done",
                              ![r].resp = FontsFailed(req[r].fonts.message),
                              ![r].caught = Caught("fonts", Err(req[r].fonts.message),
                                                   <<"Error cargando recursos del PDF">>)]
     \/ /\ req[r].fonts.regular = "ok" /\ req[r].fonts.bold = "ok"
        /\ req' = [req EXCEPT ![r].pc = "render"]
  /\ UNCHANGED <<env, services, bucket, probe, nav>>

\* layout, doc.end() and the await of the document's bytes
Render(r) ==
  /\ req[r].pc = "render"
  /\ \/ Respond(r, [NoResp EXCEPT !.status = 200, !.kind = "pdf",
                                  !.service = req[r].existing])
     \/ \E m \in ErrMsgs : Fail(r, <<>>, "render", Err(m), CatchMessage("invoice"))
  /\ UNCHANGED <<env, services, bucket, probe, nav>>

(***************************************************************************)
(* Requests arriving                                                       *)
(***************************************************************************)
BeginList(r, queries) ==
  \E q \in queries : Arrive(r, "list", <<>>, IdleReq.body, BaseForm, q)

BeginCreate(r, forms) ==
  \E f \in forms : Arrive(r, "create", <<>>, IdleReq.body, f, NoQuery)

BeginDelete(r, bodies) ==
  \E b \in bodies : Arrive(r, "delete", <<>>, b, BaseForm, NoQuery)

BeginRead(r, codes) ==
  \E c \in codes : Arrive(r, "read", c, IdleReq.body, BaseForm, NoQuery)

BeginUpdate(r, inputs) ==
  \E i \in inputs : Arrive(r, "update", i[1], IdleReq.body, i[2], NoQuery)

BeginInvoice(r, codes) ==
  \E c \in codes : Arrive(r, "invoice", c, IdleReq.body, BaseForm, NoQuery)

\* the response has been sent
Close(r) ==
  /\ req[r].pc = "done"
  /\ req' = [req EXCEPT ![r] = IdleReq]
  /\ UNCHANGED <<env, services, bucket, probe, nav>>

\* a step of the request in slot r
Step(r) ==
  \/ Close(r)
  \/ Auth(r)
  \/ LookupExact(r)
  \/ LookupIlike(r)
  \/ ReadForm(r)
  \/ Upload(r)
  \/ Insert(r)
  \/ Update(r)
  \/ ReadBody(r)
  \/ DeleteRows(r)

(***************************************************************************)
(* Spec: requests served one after another, any handler, any input         *)
(***************************************************************************)
UpdateInputs ==
  ({ <<"A","1">> } \X Forms) \cup
  (CodeParams \X { BaseForm, [BaseForm EXCEPT !.prioridad = <<"U","r","g","e","n","t","e">>] })

Next ==
  \/ BeginList("r1", ListQueries)
  \/ BeginCreate("r1", Forms)
  \/ BeginDelete("r1", DeleteBodies)
  \/ BeginRead("r1", CodeParams)
  \/ BeginUpdate("r1", UpdateInputs)
  \/ BeginInvoice("r1", CodeParams)
  \/ Step("r1")
  \/ ListQuery("r1")
  \/ StartFonts("r1")
  \/ \E which \in {"regular", "bold"} : FontRead("r1", which)
  \/ FontsSettled("r1")
  \/ Render("r1")

Spec == Init /\ [][Next]_vars

(***************************************************************************)
(* SpecConc: two overlapping requests among create, update and bulk        *)
(* delete, in a configured production deployment                           *)
(***************************************************************************)
WithFile ==
  [BaseForm EXCEPT !.abono = <<"5">>, !.costo_final = <<"5">>,
                   !.cotizacionFile = File(1024, "application/pdf")]

ConcCreates == { WithFile }

ConcUpdates == { << <<"a","1">>, BaseForm >>, << <<"A","1">>, WithFile >> }

ConcBodies ==
  { [isArray |-> TRUE, codes |-> << StrEntry(<<"A","1">>), StrEntry(<<"A","2">>) >>] }

InitConc ==
  /\ Init
  /\ env = [NODE_ENV |-> "production", SUPABASE_CONFIGURED |-> TRUE]

NextConc ==
  \E r \in Slots :
    \/ BeginCreate(r, ConcCreates)
    \/ BeginDelete(r, ConcBodies)
    \/ BeginUpdate(r, ConcUpdates)
    \/ Step(r)

SpecConc == InitConc /\ [][NextConc]_vars

(***************************************************************************)
(* SpecText: create, update and bulk delete of records whose free-text    *)
(* fields are at and over the length limits                                *)
(***************************************************************************)
\* a text of n characters
Text(n) == [i \in 1..n |-> "x"]

TextForms ==
  { BaseForm,
    [BaseForm EXCEPT !.cliente = Text(MAX_STRING_LENGTH)],
    [BaseForm EXCEPT !.cliente = Text(MAX_STRING_LENGTH + 1)],
    [BaseForm EXCEPT !.almacen = Text(MAX_STRING_LENGTH + 1)],
    [BaseForm EXCEPT !.descripcion = Text(MAX_STRING_LENGTH + 1),
                     !.cotizacionFile = File(1024, "application/pdf")],
    [BaseForm EXCEPT !.descripcion = Text(MAX_DESCRIPTION_LENGTH + 1)],
    [BaseForm EXCEPT !.cliente = <<"<">> \o Text(MAX_STRING_LENGTH) \o <<">", " ">>,
                     !.descripcion = <<"<", "x", ">">>],
    [BaseForm EXCEPT !.agente = <<"<", " ", ">">>],
    [BaseForm EXCEPT !.estado = <<"C","e","r","r","a","d","o">>],
    [BaseForm EXCEPT !.material = <<"O","r","o">>] }

TextUpdates == { <<"A","1">> } \X TextForms

TextBodies == { [isArray |-> TRUE, codes |-> << StrEntry(<<"A","1">>) >>] }

NextText ==
  \/ BeginCreate("r1", TextForms)
  \/ BeginUpdate("r1", TextUpdates)
  \/ BeginDelete("r1", TextBodies)
  \/ Step("r1")

SpecText == Init /\ [][NextText]_vars

(***************************************************************************)
(* middleware.ts: the page-level routing                                   *)
(***************************************************************************)
StartsWith(s, prefix) ==
  Len(s) >= Len(prefix) /\ SubSeq(s, 1, Len(prefix)) = prefix

EndsWith(s, suffix) ==
  Len(s) >= Len(suffix) /\ SubSeq(s, Len(s) - Len(suffix) + 1, Len(s)) = suffix

\* config.matcher: every path except those that begin, after the first "/",
\* with _next/static, _next/image or favicon.ico ("." is any character), and
\* those that end with an image extension
ImageExtensions ==
  { <<".","s","v","g">>,
    <<".","p","n","g">>,
    <<".","j","p","g">>,
    <<".","j","p","e","g">>,
    <<".","g","i","f">>,
    <<".","w","e","b","p">> }

matcher(pathname) ==
  LET rest == Tail(pathname) IN
  /\ ~StartsWith(rest, <<"_","n","e","x","t","/","s","t","a","t","i","c">>)
  /\ ~StartsWith(rest, <<"_","n","e","x","t","/","i","m","a","g","e">>)
  /\ ~( /\ Len(rest) >= 11
        /\ SubSeq(rest, 1, 7) = <<"f","a","v","i","c","o","n">>
        /\ SubSeq(rest, 9, 11) = <<"i","c","o">> )
  /\ ~\E e \in ImageExtensions : EndsWith(rest, e)

\* the two versions of the middleware in the repository
Variants == {"middleware.ts", "part_000"}

\* the request paths
Paths ==
  { <<"/">>,
    <<"/","l","o","g","i","n">>,
    <<"/","s","i","g","n","u","p">>,
    <<"/","a","p","p">>,
    <<"/","a","p","p","/","h","i","s","t","o","r","i","a","l">>,
    <<"/","a","p","p","/","s","e","r","v","i","c","e","s","/","A","1">>,
    <<"/","a","p","p","/","s","e","r","v","i","c","e","s","/","A","1",".","p","n","g">>,
    <<"/","a","p","p","l","i","c","a","t","i","o","n">>,
    <<"/","l","o","g","o",".","p","n","g">>,
    <<"/","_","n","e","x","t","/","s","t","a","t","i","c","/","x",".","j","s">>,
    <<"/","f","a","v","i","c","o","n",".","i","c","o">>,
    <<"/","a","p","i","/","s","e","r","v","i","c","e","s">> }

LoginPath == <<"/","l","o","g","i","n">>

AppPath == <<"/","a","p","p">>

\* a path of the protected area: /app and everything below it
UnderApp(pathname) == pathname = AppPath \/ StartsWith(pathname, AppPath \o <<"/">>)

NavArrive ==
  /\ nav.pc = "idle"
  /\ \E pathname \in Paths, visitor \in {"anonymous", "authenticated"} :
       nav' = [nav EXCEPT !.pc = "matcher", !.pathname = pathname, !.visitor = visitor,
                          !.ran = FALSE, !.thrown = FALSE, !.result = "none",
                          !.page = "none", !.hops = 0]
  /\ UNCHANGED <<env, services, bucket, req, probe>>

\* Next.js runs the middleware only on the paths of config.matcher; any other
\* request goes straight to the router
NavMatch ==
  /\ nav.pc = "matcher"
  /\ nav' = IF matcher(nav.pathname)
              THEN [nav EXCEPT !.pc = "middleware", !.ran = TRUE]
              ELSE [nav EXCEPT !.pc = "done", !.result = "next"]
  /\ UNCHANGED <<env, services, bucket, req, probe>>

\* the decisions of the middleware once auth.getUser() has answered
routeFor_AppToLogin(variant, pathname, user) ==
  LET root == variant = "part_000" /\ pathname = <<"/">> IN
  IF user /\ (pathname = LoginPath \/ root) THEN "redirect:/app"
  ELSE IF pathname = <<"/","s","i","g","n","u","p">> THEN "redirect:/login"
  ELSE IF StartsWith(pathname, AppPath) \/ root THEN "redirect:/login"
  ELSE "next"

routeFor(variant, pathname, user) ==
  LET root == variant = "part_000" /\ pathname = <<"/">> IN
  IF user /\ (pathname = LoginPath \/ root) THEN "redirect:/app"
  ELSE IF pathname = <<"/","s","i","g","n","u","p">> THEN "redirect:/login"
  ELSE IF ~user /\ (StartsWith(pathname, AppPath) \/ root) THEN "redirect:/login"
  ELSE "next"

\* what the middleware answers when it cannot ask the auth service: part_000
\* redirects the /app paths and lets the others through; middleware.ts has no
\* check and no catch, so the failure leaves the middleware
routeWithoutAuth(variant, pathname) ==
  IF variant = "middleware.ts" THEN "error"
  ELSE IF StartsWith(pathname, AppPath) THEN "redirect:/login"
  ELSE "next"

\* whether auth.getUser() throws: either way for the start path, and the
\* same way again while the redirects of one visit are followed
AuthCallOutcomes == IF nav.hops = 0 THEN BOOLEAN ELSE {nav.thrown}

Middleware ==
  /\ nav.pc = "middleware"
  /\ IF ~nav.configured
       THEN nav' = [nav EXCEPT !.pc = "done",
                               !.result = routeWithoutAuth(nav.variant, nav.pathname)]
       ELSE \E thrown \in AuthCallOutcomes :
              nav' = [nav EXCEPT !.pc = "done", !.thrown = thrown,
                        !.result = IF thrown
                                     THEN routeWithoutAuth(nav.variant, nav.pathname)
                                     ELSE routeFor(nav.variant, nav.pathname,
                                                   nav.visitor = "authenticated")]
  /\ UNCHANGED <<env, services, bucket, req, probe>>

\* app/page.tsx: the page at "/" answers with a redirect in every branch.
\* redirect() signals by throwing; the call in the try block is caught by
\* the page's own catch, which redirects to /login (the framework's documented
\* behaviour), or it leaves the page as written: both targets are outcomes
Home ==
  /\ nav.pc = "done" /\ nav.result = "next" /\ nav.pathname = <<"/">>
  /\ nav.page = "none"
  /\ \E target \in IF nav.configured /\ ~nav.thrown /\ nav.visitor = "authenticated"
                      THEN {"redirect:/app", "redirect:/login"}
                      ELSE {"redirect:/login"} :
       nav' = [nav EXCEPT !.page = target]
  /\ UNCHANGED <<env, services, bucket, req, probe>>

\* the redirect the visit has been answered with ("none": a final response)
Location ==
  IF nav.pc # "done" THEN "none"
  ELSE IF nav.result \in {"redirect:/login", "redirect:/app"} THEN nav.result
  ELSE IF nav.page \in {"redirect:/login", "redirect:/app"} THEN nav.page
  ELSE "none"

\* the most redirects of one visit the model follows
MaxHops == 3

\* the browser follows the redirect: a new request, with the same session
NavFollow ==
  /\ Location # "none" /\ nav.hops < MaxHops
  /\ nav' = [nav EXCEPT !.pc = "matcher",
                         !.pathname = IF Location = "redirect:/app" THEN AppPath ELSE LoginPath,
                         !.ran = FALSE, !.result = "none", !.page = "none",
                         !.hops = @ + 1]
  /\ UNCHANGED <<env, services, bucket, req, probe>>

NavClose ==
  /\ nav.pc = "done"
  /\ nav' = [nav EXCEPT !.pc = "idle"]
  /\ UNCHANGED <<env, services, bucket, req, probe>>

InitNav ==
  /\ env = [NODE_ENV |-> "production", SUPABASE_CONFIGURED |-> TRUE]
  /\ services = [c \in {} |-> Null]
  /\ bucket = {}
  /\ req = [r \in Slots |-> IdleReq]
  /\ probe = NoProbe
  /\ nav \in { [NoNav EXCEPT !.variant = v, !.configured = c] :
                 v \in Variants, c \in BOOLEAN }

NextNav == NavArrive \/ NavMatch \/ Middleware \/ Home \/ NavFollow \/ NavClose

SpecNav == InitNav /\ [][NextNav]_vars

(***************************************************************************)
(* SpecPure: the validators and parsers applied to one input each          *)
(***************************************************************************)
Probe(fn, arg) == [fn |-> fn, arg |-> arg, applied |-> FALSE]

Applied(result) == probe' = [probe EXCEPT !.applied = TRUE] @@ [result |-> result]

LimitParams ==
  { Absent, Param(<<>>), Param(<<"0">>), Param(<<"1">>), Param(<<"2">>),
    Param(<<"2","0","0">>), Param(<<"5","0","0">>), Param(<<"5","0","1">>),
    Param(<<"-","5">>), Param(<<"2",".","5">>), Param(<<"0",".","5">>),
    Param(<<"4","9","9",".","9","9">>), Param(<<"a","b","c">>) }

OffsetParams ==
  { Absent, Param(<<>>), Param(<<"0">>), Param(<<"1">>), Param(<<"1","0">>),
    Param(<<"-","1">>), Param(<<"0",".","5">>), Param(<<"1",".","5">>),
    Param(<<"a","b","c">>) }

PaginationProbes ==
  { Probe("pagination", [limit |-> l, offset |-> o]) : l \in LimitParams, o \in OffsetParams }

ApplyPagination ==
  /\ probe.fn = "pagination" /\ ~probe.applied
  /\ Applied([ limit  |-> limit(probe.arg.limit),
               offset |-> offset(probe.arg.offset),
               range  |-> range(probe.arg.limit, probe.arg.offset) ])
  /\ UNCHANGED <<env, services, bucket, req, nav>>

\* the decimal digits, in order, and a number below 100 written with two of them
DigitChars == <<"0","1","2","3","4","5","6","7","8","9">>

TwoDigits(n) == << DigitChars[(n \div 10) + 1], DigitChars[(n % 10) + 1] >>

IsoDate(year, month, day) == year \o <<"-">> \o TwoDigits(month) \o <<"-">> \o TwoDigits(day)

DateStrings ==
  { IsoDate(y, m, d) : y \in { <<"2","0","2","3">>, <<"2","0","2","4">>, <<"1","9","0","0">> },
                       m \in {0, 1, 2, 4, 12, 13},
                       d \in {0, 1, 28, 29, 30, 31, 32, 45} }
  \cup { <<>>, <<"1","5","/","0","1","/","2","0","2","4">>,
         <<"2","0","2","4","-","1","-","5">>,
         <<"2","0","2","4","-","0","1","-","1","5","T">>,
         <<"2","0","2","4","/","0","1","/","1","5">>,
         <<"a","b","c","d","-","e","f","-","g","h">> }

DateProbes == { Probe("validateDate", d) : d \in DateStrings }

ApplyValidateDate ==
  /\ probe.fn = "validateDate" /\ ~probe.applied
  /\ Applied(validateDate(probe.arg))
  /\ UNCHANGED <<env, services, bucket, req, nav>>

\* the money strings: every string of at most MaxMoneyLen characters of the
\* alphabet, and the amounts around the ceiling
MaxMoneyLen == 4

MoneyAlphabet == {"0", "5", ",", ".", "-", " ", "a"}

MoneyStrings ==
  UNION { [1..k -> MoneyAlphabet] : k \in 0..MaxMoneyLen }
  \cup { Ceiling, Ceiling \o <<",","0","1">>, Ceiling \o <<".","0","0">>,
         <<"1","0","0","0","0","0","0","0","0","1">>,
         <<"9","9","9","9","9","9","9","9","9",",","9","9">> }

MoneyProbes ==
  { Probe("money", [raw |-> m, required |-> b]) : m \in MoneyStrings, b \in BOOLEAN }

\* the handler trims the submitted value, validates it and parses it
ApplyMoney ==
  /\ probe.fn = "money" /\ ~probe.applied
  /\ LET raw == Trim(probe.arg.raw) IN
     Applied([ validation |-> validateMoney(raw, "Monto", probe.arg.required),
               parsed     |-> parseMoney(raw) ])
  /\ UNCHANGED <<env, services, bucket, req, nav>>

(***************************************************************************)
(* The invoice renderers: the vertical positions (in points, from the top  *)
(* of the page) at which each block is drawn.  The repository holds three   *)
(* renderers: one that measures its texts with heightOfString, and two     *)
(* that place the sections at fixed offsets.  The measured heights are     *)
(* inputs: a text of n wrapped lines of 10-point type measures 12 n.       *)
(***************************************************************************)
Renderers == {"measured", "fixed", "part_007"}

\* doc.page.height of the size the renderer opens (A4 is 841.89, rounded up)
pageHeight(paper) == IF paper = "A4" THEN 842 ELSE 792

\* Math.max on points
MathMax(a, b) == IF a > b THEN a ELSE b

Max3(a, b, c) == MathMax(MathMax(a, b), c)

\* the metadata grid of the measured renderer: cells[col][row] are the
\* measured heights of the six cells
colH(cells, col) == cells[col][1] + 6 + cells[col][2]

rowH(cells) == Max3(colH(cells, 1), colH(cells, 2), colH(cells, 3))

line2Y(topY, cells) == topY + Max3(cells[1][1], cells[2][1], cells[3][1]) + 6

afterTopBlockY(topY, cells) == topY + rowH(cells) + 10

headerHeight(logoHeight) == MathMax(54 + 10, logoHeight)

\* the positions the renderer computes for a record whose texts measure m
Layout(renderer, m) ==
  IF renderer = "measured" THEN
    LET titleY == 36 + headerHeight(m.logoHeight) + 18
        topY == (titleY + 22) + 10
        pagosY == afterTopBlockY(topY, m.cells) + 10
        sectionY == pagosY + 24
        observacionesY == sectionY + 28 + m.descH + 18
    IN  [ topY |-> topY, line2Y |-> line2Y(topY, m.cells),
          afterTopBlockY |-> afterTopBlockY(topY, m.cells),
          descY |-> sectionY + 28, observacionesY |-> observacionesY,
          obsY |-> observacionesY + 30,
          footerY |-> observacionesY + 30 + m.obsH + 24 ]
  ELSE
    LET topY == IF renderer = "fixed" THEN 195
                ELSE ((36 + headerHeight(m.logoHeight) + 40) + 30) + 15
        sectionY == topY + 70
        observacionesY == sectionY + 120
    IN  [ topY |-> topY, line2Y |-> topY + 18, afterTopBlockY |-> topY + 48,
          descY |-> sectionY + 30, observacionesY |-> observacionesY,
          obsY |-> observacionesY + 30,
          footerY |-> pageHeight("A4") - 60 ]

\* the most lines a cell of the grid wraps to
MaxCellLines == 3

CellHeights == { 12 * n : n \in 1..MaxCellLines }

\* the measured height of the description, up to one of 3000 characters
\* (about 32 lines), and of the observations
DescHeights == { 0, 12, 84, 96, 384 }

ObsHeights == { 12, 72 }

LayoutProbes ==
  { Probe("layout", [renderer |-> "measured",
                     m |-> [logoHeight |-> 0, cells |-> c, descH |-> d, obsH |-> o]]) :
      c \in [1..3 -> [1..2 -> CellHeights]], d \in {12, 384}, o \in {12} }
  \cup
  { Probe("layout", [renderer |-> v,
                     m |-> [logoHeight |-> l, cells |-> [i \in 1..3 |-> [j \in 1..2 |-> 12]],
                            descH |-> d, obsH |-> o]]) :
      v \in Renderers, l \in {0, 80}, d \in DescHeights, o \in ObsHeights }

ApplyLayout ==
  /\ probe.fn = "layout" /\ ~probe.applied
  /\ Applied(Layout(probe.arg.renderer, probe.arg.m))
  /\ UNCHANGED <<env, services, bucket, req, nav>>

\* the texts to sanitize: every string of at most MaxTextLen characters of the
\* alphabet, and texts around MAX_STRING_LENGTH characters
MaxTextLen == 3

TextAlphabet == {"<", ">", " ", "a"}

TextStrings ==
  UNION { [1..k -> TextAlphabet] : k \in 0..MaxTextLen }
  \cup { [i \in 1..(MAX_STRING_LENGTH + 1) |-> "a"],
         [i \in 1..(MAX_STRING_LENGTH - 1) |-> "a"] \o <<" ", "a">> }

SanitizeProbes == { Probe("sanitizeString", t) : t \in TextStrings }

\* the text is sanitized when submitted, and again when the stored value is
\* re-submitted unchanged
ApplySanitize ==
  /\ probe.fn = "sanitizeString" /\ ~probe.applied
  /\ Applied([ once  |-> sanitizeString(probe.arg),
               twice |-> sanitizeString(sanitizeString(probe.arg)) ])
  /\ UNCHANGED <<env, services, bucket, req, nav>>

Probes == PaginationProbes \cup DateProbes \cup MoneyProbes \cup LayoutProbes
          \cup SanitizeProbes

InitPure ==
  /\ env = [NODE_ENV |-> "production", SUPABASE_CONFIGURED |-> TRUE]
  /\ services = [c \in {} |-> Null]
  /\ bucket = {}
  /\ req = [r \in Slots |-> IdleReq]
  /\ probe \in Probes
  /\ nav = NoNav

NextPure ==
  \/ ApplyPagination
  \/ ApplyValidateDate
  \/ ApplyMoney
  \/ ApplyLayout
  \/ ApplySanitize

SpecPure == InitPure /\ [][NextPure]_vars

(***************************************************************************)
(* Properties                                                              *)
(***************************************************************************)
Done(r) == req[r].pc = "done"

Called(r, call) == \E i \in 1..Len(req[r].calls) : req[r].calls[i] = call

Writes == {"db.insert", "db.update", "db.delete", "storage.upload"}

NoWrite(r) == \A i \in 1..Len(req[r].calls) : req[r].calls[i] \notin Writes

\* the handler got past the auth gate
Authenticated(r) == req[r].auth.user /\ ~req[r].auth.error /\ ~req[r].auth.thrown

\* the auth service answered, and not with a user
NoIdentity(r) ==
  /\ req[r].auth # NoAuth
  /\ ~req[r].auth.thrown
  /\ ~req[r].auth.user \/ req[r].auth.error

\* C1: in every handler, a request whose identity the auth gate does not
\* resolve is answered 401, and the identity-resolution call is the only
\* external call of the request (no store query, no storage call, no
\* processing of the request body)
C1_Unauthenticated401 ==
  \A r \in Slots :
    NoIdentity(r) =>
      /\ Done(r)
      /\ req[r].resp.status = 401
      /\ req[r].calls = <<"auth.getUser">>

C1_Witness ==
  \E r \in Slots :
    /\ req[r].op = "delete" /\ Done(r) /\ NoIdentity(r) /\ ~req[r].auth.error
    /\ req[r].body.isArray /\ Len(req[r].body.codes) = 1
    /\ req[r].body.codes[1].value \in DOMAIN services

\* 0 <= n <= MAX_MONEY_VALUE
InMoneyRange(n) == IsFinite(n) /\ ~IsNegative(n) /\ ~NumGt(n, Num(MAX_MONEY_VALUE, 0))

\* C2: every record of the store satisfies
\* 0 <= abono <= costo_final <= 1,000,000,000
C2_MoneyInvariant ==
  \A c \in DOMAIN services :
    /\ InMoneyRange(services[c].abono)
    /\ InMoneyRange(services[c].costo_final)
    /\ ~NumGt(services[c].abono, services[c].costo_final)

C2_Witness ==
  \E c \in DOMAIN services, r \in Slots :
    /\ services[c].costo_final = Num(MAX_MONEY_VALUE, 0)
    /\ services[c].abono = Num(5, 50)
    /\ req[r].op = "update" /\ Done(r) /\ req[r].resp.status = 200
    /\ req[r].resp.service = services[c]

\* the submission was read and passes every field validation
FieldsValid(r) ==
  /\ Called(r, "body") /\ ~req[r].form.malformed
  /\ FirstInvalid(Validations(Fields(req[r].form))).valid

\* the parsed deposit is greater than the parsed final cost
DepositAboveCost(form) == NumGt(parseMoney(Trim(form.abono)), parseMoney(Trim(form.costo_final)))

\* C3: a create or update whose fields are all valid and whose parsed abono
\* is greater than its parsed costo_final is answered 400 and makes no
\* insert, no update and no upload
C3_DepositAboveCostRejected ==
  \A r \in Slots :
    ( /\ Done(r) /\ req[r].op \in {"create", "update"}
      /\ FieldsValid(r) /\ DepositAboveCost(req[r].form) )
    => /\ req[r].resp.status = 400
       /\ NoWrite(r)

C3_Witness ==
  \E r \in Slots :
    /\ Done(r) /\ req[r].op = "update" /\ FieldsValid(r)
    /\ DepositAboveCost(req[r].form) /\ req[r].form.cotizacionFile.present
    /\ req[r].resp.status = 400
    /\ req[r].existing # Null

\* a well-formed submission that some check rejects
Rejectable(r) ==
  /\ req[r].op \in {"create", "update"}
  /\ ~req[r].form.malformed
  /\ \/ ~FirstInvalid(Validations(Fields(req[r].form))).valid
     \/ DepositAboveCost(req[r].form)
     \/ /\ req[r].form.cotizacionFile.present
        /\ ~validateFile(req[r].form.cotizacionFile).valid

External == Writes \cup {"db.select"}

\* C4 as claimed: a create or update with an invalid field, from an
\* authenticated caller of a configured deployment and with no external call
\* failing, is answered 400 without any store or storage call (in particular
\* 400, not 404, for an unknown code)
C4_NoCallBeforeValidation ==
  \A r \in Slots :
    ( /\ Done(r) /\ Rejectable(r) /\ Authenticated(r) /\ env.SUPABASE_CONFIGURED
      /\ ~req[r].caught.some
      /\ Trim(req[r].code) # <<>> \/ req[r].op = "create"
      /\ Len(Trim(req[r].code)) <= MAX_CODE_LENGTH )
    => /\ req[r].resp.status = 400
       /\ \A i \in 1..Len(req[r].calls) : req[r].calls[i] \notin External

\* C4 amended: no write (insert, update, upload) is issued for a submission
\* that fails a check; create makes no store or storage call at all before
\* the checks have passed; update makes only the read-only lookup queries
\* before them, so that a rejected submission is answered 400 once it has
\* been read, and an update of a code that resolves to no record is answered
\* 404 whatever the submission
C4_NoWriteBeforeValidation ==
  \A r \in Slots :
    (Done(r) /\ Rejectable(r)) =>
      /\ NoWrite(r)
      /\ req[r].op = "create" =>
           \A i \in 1..Len(req[r].calls) : req[r].calls[i] \notin External
      /\ Called(r, "body") => req[r].resp.status = 400
      /\ ( /\ req[r].op = "update" /\ ~req[r].caught.some
           /\ Len(req[r].calls) = 3 /\ ~Called(r, "body") )
         => req[r].resp.status = 404

C4_Witness ==
  \E r \in Slots :
    /\ Done(r) /\ Rejectable(r) /\ req[r].op = "update"
    /\ req[r].resp.status = 404
    /\ req[r].calls = <<"auth.getUser", "db.select", "db.select">>

\* the body names between 1 and 100 codes, each a non-blank string
DeletableBody(body) ==
  /\ body.isArray
  /\ Len(body.codes) >= 1 /\ Len(body.codes) <= 100
  /\ \A i \in 1..Len(body.codes) :
       body.codes[i].isString /\ Trim(body.codes[i].value) # <<>>

\* C5: bulk delete issues the delete exactly when the body's codes is an
\* array of 1 to 100 non-blank strings; otherwise it answers 400 and deletes
\* nothing
C5_DeleteGuard ==
  \A r \in Slots :
    (Done(r) /\ req[r].op = "delete" /\ Called(r, "body")) =>
      /\ Called(r, "db.delete") <=> DeletableBody(req[r].body)
      /\ ~DeletableBody(req[r].body) => req[r].resp.status = 400 /\ NoWrite(r)

C5_Witness ==
  \E r \in Slots :
    /\ Done(r) /\ req[r].op = "delete"
    /\ Len(req[r].body.codes) = 100
    /\ req[r].resp.status = 200 /\ req[r].resp.deleted = 100

\* C6: a step of an update request never changes the set of codes in the
\* store, writes no record but the one its lookup resolved, and leaves every
\* record's code as it is; in particular the write of an update whose record
\* was deleted after the lookup creates no record
C6_UpdateKeepsCodes ==
  [][ \A r \in Slots :
        (req[r].op = "update" /\ req'[r] # req[r]) =>
          /\ DOMAIN services' = DOMAIN services
          /\ \A c \in DOMAIN services :
               /\ services'[c].code = c
               /\ services'[c] # services[c] =>
                    /\ req[r].existing # Null
                    /\ c = req[r].existing.code ]_vars

C6_Witness ==
  \E r \in Slots :
    /\ Done(r) /\ req[r].op = "update" /\ Called(r, "db.update")
    /\ req[r].existing.code \notin DOMAIN services
    /\ req[r].resp.status = 500

\* the lookup of the request ran to its end and no store query failed
LookedUp(r) ==
  /\ req[r].op \in {"read", "update", "invoice"}
  /\ Called(r, "db.select")
  /\ req[r].pc # "ilike"
  /\ ~(req[r].caught.some /\ req[r].caught.origin = "store")

\* C7: whatever the store holds and whatever code of at most 100 characters
\* is requested, the lookup of read one, update and invoice ends with a
\* resolved record or with 404 {error: "Servicio no encontrado"}
C7_LookupResolvesOr404 ==
  \A r \in Slots :
    LookedUp(r) =>
      \/ req[r].existing # Null
      \/ req[r].resp.kind = "service"
      \/ req[r].resp = createErrorResponse(<<"Servicio no encontrado">>, 404)

\* C8: the cotizacion_url a create or update writes is the public URL of the
\* object the request uploaded when it carries a file, and otherwise the
\* value the lookup read (update) or null (create)
C8_AttachmentUrl ==
  \A r \in Slots :
    ( /\ Done(r) /\ req[r].op \in {"create", "update"}
      /\ req[r].resp.kind = "service" )
    => LET written == req[r].resp.service IN
       /\ written.code \in DOMAIN services
       /\ services[written.code].cotizacion_url = written.cotizacion_url
       /\ req[r].form.cotizacionFile.present =>
            /\ written.cotizacion_url = getPublicUrl(req[r].path)
            /\ req[r].path \in bucket
            /\ Called(r, "storage.upload")
            /\ \A c \in DOMAIN services \ {written.code} :
                 services[c].cotizacion_url # written.cotizacion_url
       /\ ~req[r].form.cotizacionFile.present =>
            written.cotizacion_url =
              IF req[r].op = "update" THEN req[r].existing.cotizacion_url ELSE NullUrl

C8_Witness ==
  \E r \in Slots :
    /\ Done(r) /\ req[r].op = "update" /\ req[r].resp.status = 200
    /\ ~req[r].form.cotizacionFile.present
    /\ req[r].existing.cotizacion_url # NullUrl
    /\ services[req[r].existing.code].cotizacion_url = req[r].existing.cotizacion_url

\* the auth service has answered the request
AuthAnswered(r) == req[r].auth # NoAuth

\* C9 as claimed: the gate answers 500, not 401, whenever the
\* identity-resolution call fails, thrown or returned as an error value
C9_AuthFailureIs500 ==
  \A r \in Slots :
    (AuthAnswered(r) /\ (req[r].auth.thrown \/ req[r].auth.error)) =>
      Done(r) /\ req[r].resp.status = 500

\* C9 amended: the gate has three outcomes: the handler proceeds when the
\* auth service returns a user and no error; 401 when it reports no user or
\* returns an error value; 500 when the call throws
C9_AuthOutcomes ==
  \A r \in Slots :
    AuthAnswered(r) =>
      /\ Authenticated(r) =>
           /\ req[r].pc # "auth"
           /\ req[r].resp.status # 401
           /\ req[r].caught.origin # "auth"
      /\ NoIdentity(r) => Done(r) /\ req[r].resp = Unauthorized
      /\ req[r].auth.thrown =>
           /\ Done(r) /\ req[r].resp.status = 500
           /\ req[r].calls = <<"auth.getUser">>

C9_Witness ==
  \E r \in Slots :
    /\ Done(r) /\ req[r].auth.error /\ ~req[r].auth.thrown
    /\ req[r].resp.status = 401

\* C10: a caught failure is answered 500; outside development the body is
\* {error: defaultMessage} whatever the failure's message, for handleError,
\* the auth gate and the font loading alike; in development handleError
\* answers with the failure's message when it has one, else with the default
C10_ErrorDetailGated ==
  \A r \in Slots :
    (Done(r) /\ req[r].caught.some) =>
      /\ req[r].resp.status = 500
      /\ req[r].resp.kind = "error"
      /\ env.NODE_ENV # "development" =>
           /\ req[r].resp.error = req[r].caught.default
           /\ req[r].resp.details = <<>>
      /\ (env.NODE_ENV = "development" /\ req[r].caught.origin \notin {"auth", "fonts"}) =>
           req[r].resp.error = IF req[r].caught.message # <<>>
                                 THEN req[r].caught.message
                                 ELSE req[r].caught.default

C10_Witness ==
  \E r \in Slots :
    /\ Done(r) /\ req[r].caught.some
    /\ req[r].caught.origin = "store" /\ req[r].caught.message # <<>>
    /\ env.NODE_ENV = "production"
    /\ req[r].resp.error = <<"Error insertando servicio">>

\* the checks of a submission in the order the claim gives them: the
\* thirteen fields, then deposit <= final cost, then the file
OrderedChecks(form) ==
  LET cliente == sanitizeString(form.cliente)
      telefono == sanitizeString(form.telefono)
      maquina == sanitizeString(form.maquina)
      descripcion == sanitizeString(form.descripcion)
      material == sanitizeString(form.material)
      agente == sanitizeString(form.agente)
      almacen == sanitizeString(form.almacen)
  IN  << validateString(cliente, "Cliente", MAX_STRING_LENGTH, TRUE),
         validatePhone(telefono),
         validateString(maquina, "Maquina", MAX_STRING_LENGTH, TRUE),
         validateDate(Trim(form.fecha)),
         validateTime(Trim(form.hora)),
         validateEstado(Trim(form.estado)),
         validateString(descripcion, "Descripcion", MAX_DESCRIPTION_LENGTH, TRUE),
         validateMaterial(material),
         validateString(agente, "Agente", MAX_STRING_LENGTH, TRUE),
         validateString(almacen, "Almacen", MAX_STRING_LENGTH, TRUE),
         validatePrioridad(Trim(form.prioridad)),
         validateMoney(form.abono, "Abono", FALSE),
         validateMoney(form.costo_final, "Costo final", TRUE),
         IF DepositAboveCost(form)
           THEN Invalid(<<"El abono no puede ser mayor al costo final">>) ELSE Valid,
         validateFile(form.cotizacionFile) >>

\* the number of checks a submission fails
FailedChecks(form) ==
  Cardinality({ i \in 1..Len(OrderedChecks(form)) : ~OrderedChecks(form)[i].valid })

\* C11: a create whose submission fails one or more checks is answered 400
\* with the message of the earliest failed check in the order cliente,
\* telefono, maquina, fecha, hora, estado, descripcion, material, agente,
\* almacen, prioridad, abono, costo_final, deposit <= cost, file; nothing is
\* uploaded or inserted
C11_EarliestInvalidWins ==
  \A r \in Slots :
    ( /\ Done(r) /\ req[r].op = "create" /\ Called(r, "body")
      /\ ~req[r].form.malformed )
    => LET checks == OrderedChecks(req[r].form) IN
       \A i \in 1..Len(checks) :
         (~checks[i].valid /\ \A j \in 1..(i - 1) : checks[j].valid) =>
           /\ req[r].resp.status = 400
           /\ req[r].resp.error = checks[i].error
           /\ NoWrite(r)
           /\ req[r].calls = <<"auth.getUser", "body">>

C11_Witness ==
  \E r \in Slots :
    /\ Done(r) /\ req[r].op = "create" /\ Called(r, "body")
    /\ FailedChecks(req[r].form) = 3
    /\ ~OrderedChecks(req[r].form)[8].valid
    /\ req[r].resp.status = 400
    /\ req[r].resp.error = validateMaterial(<<>>).error
    /\ services # << >>

\* the function fn has been applied to its input
Probed(fn) == probe.fn = fn /\ probe.applied

\* C12 as claimed: for every limit and offset value the effective limit is
\* in [1, 500] (200 when the parameter is absent or not a finite number), the
\* effective offset is >= 0, and the requested window
\* [offset, offset + limit - 1] holds exactly limit row positions
C12_WindowHoldsLimitRows ==
  Probed("pagination") =>
    LET l == probe.result.limit
        o == probe.result.offset
        raw == StringToNumber(OrElse(probe.arg.limit, <<"2","0","0">>))
    IN  /\ IsFinite(l) /\ ~NumGt(Num(1, 0), l) /\ ~NumGt(l, Num(500, 0))
        /\ (~probe.arg.limit.present \/ ~IsFinite(raw)) => l = Num(200, 0)
        /\ IsFinite(o) /\ ~IsNegative(o)
        /\ Cardinality(Positions(probe.result.range)) * 100 = Hundredths(l)

\* the money-range and paid-flag parameters of a query, parsed
MoneyParam(v) == StringToNumber(NormalizeMoney(v))

\* a record satisfies every filter the query supplies
MatchesFilters(row, q) ==
  /\ q.estado # <<>> => row.estado = q.estado
  /\ q.maquina # <<>> => row.maquina = q.maquina
  /\ q.prioridad # <<>> => row.prioridad = q.prioridad
  /\ q.agente # <<>> => row.agente = q.agente
  /\ q.almacen # <<>> => row.almacen = q.almacen
  /\ q.desde # <<>> => DateKey(row.fecha) >= DateKey(q.desde)
  /\ q.hasta # <<>> => DateKey(row.fecha) <= DateKey(q.hasta)
  /\ q.abono_min # <<>> => ~NumGt(MoneyParam(q.abono_min), row.abono)
  /\ q.abono_max # <<>> => ~NumGt(row.abono, MoneyParam(q.abono_max))
  /\ q.costo_final_min # <<>> => ~NumGt(MoneyParam(q.costo_final_min), row.costo_final)
  /\ q.costo_final_max # <<>> => ~NumGt(row.costo_final, MoneyParam(q.costo_final_max))
  /\ q.abono_pagado # <<>> => row.abono_pagado = parseBool(q.abono_pagado)
  /\ q.costo_final_pagado # <<>> => row.costo_final_pagado = parseBool(q.costo_final_pagado)

\* C13 as claimed: every record a list returns satisfies all the filters of
\* the query, conjunctively: the exact-match filters, the date range, the
\* money ranges and the paid flags; a money-range parameter that is not a
\* valid amount is rejected before the query is made
C13_ListAppliesEveryFilter ==
  \A r \in Slots :
    (Done(r) /\ req[r].op = "list") =>
      LET q == req[r].query IN
      /\ req[r].resp.status = 200 =>
           \A i \in 1..Len(req[r].resp.rows) : MatchesFilters(req[r].resp.rows[i], q)
      /\ ( \E p \in {"abono_min", "abono_max", "costo_final_min", "costo_final_max"} :
             q[p] # <<>> /\ ~validateMoney(q[p], "Monto", FALSE).valid )
         => ~Called(r, "db.select")

\* C14: a bulk delete answered 200 reports deleted equal to the number of
\* codes of the request, whatever the store held: codes that match no row
\* are counted, and a repeated code is counted once per occurrence
C14_DeletedCountsRequested ==
  \A r \in Slots :
    (Done(r) /\ req[r].op = "delete" /\ req[r].resp.status = 200) =>
      /\ req[r].body.isArray
      /\ req[r].resp.deleted = Len(req[r].body.codes)
      /\ \A i \in 1..Len(req[r].body.codes) :
           req[r].body.codes[i].value \notin DOMAIN services

C14_Witness ==
  \E r \in Slots :
    /\ Done(r) /\ req[r].op = "delete" /\ req[r].resp.status = 200
    /\ req[r].resp.deleted = 2
    /\ { req[r].body.codes[i].value : i \in 1..Len(req[r].body.codes) }
         = { <<"A","2">>, <<"B","9">> }
    /\ DOMAIN services = { <<"A","1">> }

\* the statuses an error body may carry
ErrorStatuses == {400, 401, 403, 404, 500}

\* C15: every response is either an error, JSON with a non-empty error
\* string and a status among 400, 401, 403, 404 and 500, or a success with
\* status 200 (201 for create); a request in which an external call failed
\* or threw ends with such an error response, of status 500
C15_StructuredResponses ==
  \A r \in Slots :
    /\ ~Done(r) => req[r].resp = NoResp
    /\ Done(r) =>
         /\ req[r].resp.kind \in {"error", "service", "services", "deleted", "pdf"}
         /\ req[r].resp.kind = "error" =>
              /\ req[r].resp.status \in ErrorStatuses
              /\ req[r].resp.error # <<>>
         /\ req[r].resp.kind # "error" =>
              req[r].resp.status = IF req[r].op = "create" THEN 201 ELSE 200
         /\ req[r].caught.some =>
              req[r].resp.kind = "error" /\ req[r].resp.status = 500

C15_Witness ==
  \E r \in Slots :
    /\ Done(r) /\ req[r].op = "update"
    /\ req[r].caught.some /\ req[r].caught.origin = "storage"
    /\ req[r].resp.kind = "error" /\ req[r].resp.status = 500

\* the page request has been answered
Routed == nav.pc = "done"

\* the auth service could be asked and answered
AuthAvailable == nav.configured /\ ~nav.thrown

\* C16 as claimed, for every path and auth state: an unauthenticated visitor
\* to a path under /app is redirected to /login and never reaches the router;
\* an authenticated visitor to /login is redirected to /app; /signup is
\* redirected to /login; with the auth configuration missing or the auth call
\* failing no path under /app reaches the router
C16_PageRouting ==
  Routed =>
    /\ (nav.visitor = "anonymous" /\ UnderApp(nav.pathname)) =>
         /\ nav.result # "next"
         /\ AuthAvailable => nav.result = "redirect:/login"
    /\ (nav.visitor = "authenticated" /\ nav.pathname = LoginPath /\ AuthAvailable) =>
         nav.result = "redirect:/app"
    /\ (nav.pathname = <<"/","s","i","g","n","u","p">> /\ AuthAvailable) =>
         nav.result = "redirect:/login"
    /\ (~AuthAvailable /\ UnderApp(nav.pathname)) => nav.result # "next"

\* the number of days of a month of the Gregorian calendar
DaysInMonth(year, month) ==
  IF month \in {4, 6, 9, 11} THEN 30
  ELSE IF month # 2 THEN 31
  ELSE IF year % 4 = 0 /\ (year % 100 # 0 \/ year % 400 = 0) THEN 29
  ELSE 28

\* s is YYYY-MM-DD and names a day that exists
ExistingDate(s) ==
  /\ Len(s) = 10
  /\ s[5] = "-" /\ s[8] = "-"
  /\ \A i \in {1, 2, 3, 4, 6, 7, 9, 10} : s[i] \in Digits
  /\ LET year == DigitsToNat(SubSeq(s, 1, 4))
         month == DigitsToNat(SubSeq(s, 6, 7))
         day == DigitsToNat(SubSeq(s, 9, 10))
     IN  month \in 1..12 /\ day \in 1..DaysInMonth(year, month)

\* C17 as claimed: validateDate accepts a string if and only if it has the
\* form YYYY-MM-DD and names an existing calendar date; it rejects a month or
\* day out of range and a day past the end of its month
C17_ValidateDateIsCalendar ==
  Probed("validateDate") => (probe.result.valid <=> ExistingDate(probe.arg))

\* s with every "," replaced by "."
CommasToDots(s) == [i \in 1..Len(s) |-> IF s[i] = "," THEN "." ELSE s[i]]

\* the number a money string denotes, "," or "." being the decimal separator
Denoted(s) == StringToNumber(CommasToDots(StripSpace(Trim(s))))

\* C18: a money string validateMoney accepts is parsed by the handler to a
\* finite number in [0, 1,000,000,000], the number the string denotes with
\* "." in place of ","; a string that denotes no number, a negative number or
\* a number above the ceiling is rejected
C18_ValidatorAndParserAgree ==
  Probed("money") =>
    LET raw == probe.arg.raw
        accepted == probe.result.validation.valid
        parsed == probe.result.parsed
    IN  /\ accepted => InMoneyRange(parsed)
        /\ (accepted /\ Trim(raw) # <<>>) => parsed = Denoted(raw)
        /\ parsed = parseMoney(CommasToDots(Trim(raw)))
        /\ (Trim(raw) # <<>> /\ ~InMoneyRange(Denoted(raw))) => ~accepted
        /\ (Trim(raw) # <<>> /\ InMoneyRange(Denoted(raw))) => accepted

C18_Witness ==
  /\ Probed("money")
  /\ probe.arg.raw = <<" ","5",",","5">>
  /\ probe.result.validation.valid
  /\ probe.result.parsed = Num(5, 50)

\* the deposit the handler persists for a submission
PersistedDeposit(form) == Fields(form).abono

\* C19: a create or update answered with the written record, whose abono was
\* submitted empty, did not persist the deposit value the same submission
\* with abono "0" persists
C19_EmptyDepositIsNotZero ==
  \A r \in Slots :
    ( /\ Done(r) /\ req[r].op \in {"create", "update"}
      /\ req[r].resp.status \in {200, 201}
      /\ Trim(req[r].form.abono) = <<>> ) =>
        req[r].resp.service.abono # PersistedDeposit([req[r].form EXCEPT !.abono = <<"0">>])

\* the free-text fields limited to MAX_STRING_LENGTH characters
ShortTextFields == {"cliente", "maquina", "agente", "almacen"}

\* a submitted text field exceeds its maximum length
OverLength(form) ==
  \/ \E f \in ShortTextFields : Len(form[f]) > MAX_STRING_LENGTH
  \/ Len(form.descripcion) > MAX_DESCRIPTION_LENGTH

\* C20: a create or update that wrote a record had no free-text field over
\* its maximum length (500 characters for cliente, maquina, agente and
\* almacen, 2000 for descripcion), and a descripcion of 501 to 2000
\* characters is in the record in full
C20_LengthLimits ==
  \A r \in Slots :
    ( /\ Done(r) /\ req[r].op \in {"create", "update"}
      /\ req[r].resp.status \in {200, 201} ) =>
        /\ ~OverLength(req[r].form)
        /\ Len(req[r].form.descripcion) \in (MAX_STRING_LENGTH + 1)..MAX_DESCRIPTION_LENGTH
             => Len(req[r].resp.service.descripcion)
                  = Len(StripAngle(Trim(req[r].form.descripcion)))

\* the attachment is larger than 10 MiB, or its declared type is none of
\* PDF, PNG, JPEG, DOC, DOCX
DocumentTypes ==
  { "application/pdf", "image/png", "image/jpeg", "image/jpg", "application/msword",
    "application/vnd.openxmlformats-officedocument.wordprocessingml.document" }

BadFile(file) ==
  file.present /\ (file.size > 10 * 1024 * 1024 \/ file.type \notin DocumentTypes)

\* the request reached the attachment check: the submission was read, its
\* fields are valid and its deposit does not exceed its cost
ReachedFileCheck(r) ==
  /\ Done(r) /\ req[r].op \in {"create", "update"}
  /\ FieldsValid(r) /\ ~DepositAboveCost(req[r].form)

\* C21: a create or update whose attachment is over 10 MiB or of a type
\* outside the allowed set is never answered 200/201 and uploads, inserts and
\* updates nothing; once the request has reached the attachment check it is
\* answered 400.  An attachment of exactly 10 MiB with an allowed type passes
\* the check: the request goes on to upload it
C21_BadFileRejected ==
  \A r \in Slots :
    (Done(r) /\ req[r].op \in {"create", "update"}) =>
      /\ BadFile(req[r].form.cotizacionFile) =>
           /\ NoWrite(r)
           /\ req[r].resp.status \notin {200, 201}
           /\ ReachedFileCheck(r) => req[r].resp.status = 400
      /\ ( /\ ReachedFileCheck(r)
           /\ req[r].form.cotizacionFile.present
           /\ req[r].form.cotizacionFile.size = 10 * 1024 * 1024
           /\ ~BadFile(req[r].form.cotizacionFile) )
         => Called(r, "storage.upload") \/ req[r].caught.origin = "storage"

C21_Witness ==
  \E r \in Slots :
    /\ ReachedFileCheck(r) /\ req[r].op = "update"
    /\ req[r].form.cotizacionFile.size = 10 * 1024 * 1024 + 1
    /\ req[r].resp.status = 400
    /\ req[r].existing # Null /\ bucket # {}

\* C22: in every renderer and for every measured height of the description
\* and of the observations, the Observations section starts at or below the
\* end of the description text, and the footer starts at or below the end of
\* the observations text
C22_SectionsDoNotOverlap ==
  Probed("layout") =>
    /\ probe.result.observacionesY >= probe.result.descY + probe.arg.m.descH
    /\ probe.result.footerY >= probe.result.obsY + probe.arg.m.obsH

\* the bottom of the second-row cell of a column
cellBottom(col) == probe.result.line2Y + probe.arg.m.cells[col][2]

\* C25: in the metadata grid of the measured renderer, every second-row cell
\* starts at or below the end of the first-row cell above it and ends at or
\* above the separator drawn at topY + rowH + 10
C25_GridWithinSeparator ==
  (Probed("layout") /\ probe.arg.renderer = "measured") =>
    /\ probe.result.afterTopBlockY = probe.result.topY + rowH(probe.arg.m.cells) + 10
    /\ \A col \in 1..3 :
         /\ probe.result.line2Y >= probe.result.topY + probe.arg.m.cells[col][1]
         /\ cellBottom(col) <= probe.result.afterTopBlockY

\* the invoice request in slot r
Invoice(r) == req[r].op = "invoice"

\* C23: an invoice request is answered 200 with the PDF only when the lookup
\* resolved a record and both font reads succeeded; layout is entered only
\* with both reads completed successfully; a request one of whose reads
\* failed, or that caught any failure, ends with a 500 (404 or 400 for the
\* lookup's own answers) and never with a PDF; and the response of a finished
\* request is the only one: it does not change until the request is closed
C23_InvoiceSingleOutcome ==
  /\ [](\A r \in Slots : Invoice(r) =>
          /\ req[r].pc = "render" =>
               /\ req[r].fonts.regular = "ok" /\ req[r].fonts.bold = "ok"
               /\ req[r].existing # Null
          /\ (Done(r) /\ (req[r].resp.status = 200 \/ req[r].resp.kind = "pdf")) =>
               /\ req[r].resp.status = 200 /\ req[r].resp.kind = "pdf"
               /\ req[r].existing # Null /\ req[r].resp.service = req[r].existing
               /\ req[r].fonts.regular = "ok" /\ req[r].fonts.bold = "ok"
               /\ ~req[r].caught.some
          /\ (Done(r) /\ req[r].fonts.rejected) =>
               /\ req[r].resp.status = 500 /\ req[r].resp.kind = "error"
          /\ (Done(r) /\ req[r].caught.some) =>
               /\ req[r].resp.status = 500 /\ req[r].resp.kind = "error"
          /\ Done(r) => req[r].resp.status \in {200, 400, 401, 404, 500})
  /\ [][\A r \in Slots :
          (Invoice(r) /\ Done(r)) => (req'[r].resp = req[r].resp \/ req'[r] = IdleReq)]_vars

C23_Witness ==
  \E r \in Slots :
    /\ Invoice(r) /\ Done(r)
    /\ req[r].fonts.regular = "ok" /\ req[r].fonts.bold = "failed"
    /\ req[r].resp.status = 500 /\ req[r].existing # Null

\* a create whose upload succeeded and whose insert failed
OrphaningCreate(r) ==
  /\ Done(r) /\ req[r].op = "create"
  /\ Called(r, "storage.upload") /\ Called(r, "db.insert")
  /\ req[r].caught.some /\ req[r].caught.origin = "store"

\* C24: a create whose upload succeeded and whose insert failed is answered
\* 500; the uploaded object is still in the bucket, no record references it,
\* and the request issued no call after the insert (no compensating delete);
\* the failing insert leaves the store and the bucket as they were
C24_OrphanedUpload ==
  /\ [](\A r \in Slots : OrphaningCreate(r) =>
          /\ req[r].resp.status = 500
          /\ req[r].path \in bucket
          /\ \A c \in DOMAIN services :
               services[c].cotizacion_url # getPublicUrl(req[r].path)
          /\ req[r].calls[Len(req[r].calls)] = "db.insert"
          /\ req[r].calls[Len(req[r].calls) - 1] = "storage.upload")
  /\ [][\A r \in Slots :
          (req[r].op = "create" /\ req[r].pc = "write" /\ req'[r].caught.some) =>
            (services' = services /\ bucket' = bucket)]_vars

C24_Witness ==
  \E r \in Slots :
    /\ OrphaningCreate(r)
    /\ req[r].resp.status = 500
    /\ bucket = {req[r].path} /\ DOMAIN services = {}

\* the step in which the update in slot r writes its record
UpdateWrites(r) ==
  /\ req[r].op = "update" /\ req[r].pc = "write"
  /\ req'[r].pc = "done" /\ req'[r].resp.kind = "service"

\* C26: the write of an update that supplies no file leaves the
\* cotizacion_url of its record as it was stored immediately before the write
C26_FilelessUpdateKeepsAttachment ==
  [][\A r \in Slots :
       (UpdateWrites(r) /\ ~req[r].form.cotizacionFile.present) =>
         LET c == req[r].existing.code IN
         /\ c \in DOMAIN services /\ c \in DOMAIN services'
         /\ services'[c].cotizacion_url = services[c].cotizacion_url]_vars

\* two codes are equal up to letter case
SameUpToCase(a, b) ==
  Len(a) = Len(b) /\ \A i \in 1..Len(a) : Lower(a[i]) = Lower(b[i])

\* C27: the record that read one, update or invoice resolved (and then
\* returns, writes or renders) has the requested code up to letter case
C27_LookupMatchesCode ==
  \A r \in Slots :
    (req[r].op \in {"read", "update", "invoice"}) =>
      /\ req[r].existing # Null => SameUpToCase(req[r].existing.code, Trim(req[r].code))
      /\ (Done(r) /\ req[r].resp.kind \in {"service", "pdf"}) =>
           SameUpToCase(req[r].resp.service.code, Trim(req[r].code))

\* the free-text columns of a record
TextColumns == {"cliente", "telefono", "maquina", "descripcion", "material", "agente", "almacen"}

Estados ==
  { <<"P","e","n","d","i","e","n","t","e">>,
    <<"E","n"," ","f","a","b","r","i","c","a","c","i","o","n">>,
    <<"G","a","r","a","n","t","i","a">>,
    <<"E","n","t","r","e","g","a","d","o">> }

Prioridades ==
  { <<"2","4"," ","h","o","r","a","s">>, <<"4","8"," ","h","o","r","a","s">>,
    <<"7","2"," ","h","o","r","a","s">>, <<"N","o","r","m","a","l">> }

Materiales ==
  { <<"O","r","o"," ","d","e"," ","1","4","k">>, <<"O","r","o"," ","1","8","k">>,
    <<"P","l","a","t","a"," ","9","2","5">>, <<"P","l","a","t","a"," ","9","5","0">> }

WellFormed(row) ==
  /\ \A f \in TextColumns :
       /\ \A i \in 1..Len(row[f]) : row[f][i] \notin {"<", ">"}
       /\ Len(row[f]) <= 500
       /\ \E i \in 1..Len(row[f]) : row[f][i] \notin {" "}
  /\ row.estado \in Estados
  /\ row.prioridad \in Prioridades
  /\ row.material \in Materiales

C29_SanitizeIdempotent ==
  Probed("sanitizeString") => probe.result.twice = probe.result.once

\* the visit has been answered with a response that is not a redirect
FinalResponse ==
  /\ nav.pc = "done" /\ Location = "none"
  /\ nav.pathname # <<"/">> \/ nav.result # "next"

\* C30: with the session, the configuration and the outcome of the auth call
\* fixed, a visit follows at most two redirects from any start path, and the
\* answer to the request after the second redirect is not a redirect
C30_AtMostTwoHops ==
  /\ nav.hops <= 2
  /\ (nav.pc = "done" /\ nav.hops = 2) => Location = "none"

C30_Witness ==
  /\ FinalResponse /\ nav.hops = 2
  /\ nav.visitor = "authenticated" /\ nav.pathname = AppPath
  /\ nav.variant = "middleware.ts"

=============================================================================
